---- MODULE Spec2Model ----
(***************************************************************************)
(* FireTalk (src/main.py): the matchmaking and session engine.             *)
(*                                                                         *)
(* The store (tables users, sessions, chat_history, invites) is the        *)
(* state; every handler, job and spawned task is a process whose steps are *)
(* its store round trips (each `await` on the store is a suspension point).*)
(* The pure parts (check_mutual_match, the loop of run_matching_algorithm) *)
(* are operators, exercised on drawn inputs by SpecMatch and SpecPass and  *)
(* used as they are by the concurrent models Spec and SpecPair.            *)
(***************************************************************************)
EXTENDS Integers, Sequences, FiniteSets, TLC

VARIABLES
    probe,          \* harness of the pure operators: the drawn inputs and the results
    users,          \* table users: user_id -> profile columns
    sessions,       \* table sessions: user_id -> session columns
    chat_history,   \* table chat_history: sequence of rows, chat_id = index
    invites,        \* table invites: token -> row; a deleted row stays, marked absent,
                    \* and keeps the record of the redemptions of its token
    match_lock,     \* MATCH_LOCK: NoOne or the process holding it
    handlers,       \* process -> its position and locals: per user, the handler of
                    \* its update ("upd"), its fallback job ("job"), its exit action ("act")
    tasks,          \* match_users tasks spawned by asyncio.create_task
    jobs,           \* job queue: user_id -> number of pending jobs named fallback_<id>
    menus,          \* user_id -> the fallback menu last presented (its option set)
    ops,            \* number of updates dispatched so far (bounded by MaxOps)
    picked,         \* user_id -> times a pass chose the user since it last entered the pool
    message_map,    \* table message_map: the set of its rows
    connections,    \* table connections: sequence of rows, connection_id = index
    timers,         \* job queue: the one-shot jobs of end_chat and match_users
    ended,          \* what the calls of end_chat made so far returned
    msg_seq,        \* user_id -> message_id of the last message in the user's chat with the bot
    media_to_forward \* user_id -> context.user_data['media_to_forward'], NoMsg when absent

vars == <<probe, users, sessions, chat_history, invites, match_lock,
          handlers, tasks, jobs, menus, ops, picked,
          message_map, connections, timers, ended, msg_seq, media_to_forward>>

-----------------------------------------------------------------------------
(* Column values.                                                          *)

NULL == "NULL"                      \* SQL NULL / Python None
AnythingGoes == "AnythingGoes"      \* the default, open intent
Intents == {AnythingGoes, "CasualTalk", "Flirting"}
Genders == {"Male", "Female"}
Languages == {"English", "Spanish"}

\* A TEXT column holding JSON. t = "null": the column is NULL; "bad": text
\* json.loads rejects; "nonobj"/"num": valid JSON of another type; "obj"/"arr":
\* what json.dumps of a dict / list wrote. A key the object lacks is "Absent".
PrefsText(t, g, l) == [t |-> t, gender |-> g, language |-> l]
LangsText(t, items) == [t |-> t, items |-> items]
NullPrefs == PrefsText("null", "Absent", "Absent")
BadPrefs == PrefsText("bad", "Absent", "Absent")
NonObjPrefs == PrefsText("nonobj", "Absent", "Absent")
EmptyObjText == PrefsText("obj", "Absent", "Absent")       \* '{}'
NullLangs == LangsText("null", {})
BadLangs == LangsText("bad", {})
NumLangs == LangsText("num", {})
EmptyArrText == LangsText("arr", {})                        \* '[]'

\* json.dumps of a preferences dict and of a language list.
json_dumps_prefs(gender, language) == PrefsText("obj", gender, language)
json_dumps_langs(items) == LangsText("arr", items)

\* `text or default`: None and the empty string are falsy.
OrText(text, default) == IF text.t = "null" THEN default ELSE text

\* json.loads: raises on text that is not JSON, else the decoded value.
json_loads(text) ==
    IF text.t = "bad" THEN [raised |-> TRUE, kind |-> "none", value |-> text]
    ELSE [raised |-> FALSE,
          kind |-> CASE text.t = "obj" -> "dict"
                     [] text.t = "arr" -> "list"
                     [] OTHER -> "other",
          value |-> text]

\* dict.get(key, "Any") on decoded preferences.
prefs_get(decoded, key) ==
    LET v == IF key = "gender" THEN decoded.value.gender ELSE decoded.value.language
    IN IF v = "Absent" THEN "Any" ELSE v

-----------------------------------------------------------------------------
(* check_mutual_match (src/main.py:656-690).                               *)

\* user[key] on a row: KeyError when the row has no such key.
has_key(user, key) == key \in DOMAIN user

\* Line 663: both intents truthy, both not the open intent, and different.
intent_conflict(intent1, intent2) ==
    /\ intent1 # NULL /\ intent2 # NULL
    /\ intent1 # AnythingGoes /\ intent2 # AnythingGoes
    /\ intent1 # intent2

prefs_reject_nolang(gender_pref, lang_pref, gender_other, languages_other) ==
    IF gender_pref # "Any" /\ gender_pref # gender_other THEN "False" ELSE "Pass"

\* Lines 679-680 (and 683-684): one side's filters against the other's profile.
\* "False": return False; "Raise": the membership test raises; "Pass": go on.
prefs_reject(gender_pref, lang_pref, gender_other, languages_other) ==
    IF gender_pref # "Any" /\ gender_pref # gender_other THEN "False"
    ELSE IF lang_pref = "Any" THEN "Pass"
    ELSE IF languages_other.kind = "list" /\ languages_other.value.items = {} THEN "False"
    ELSE IF languages_other.kind # "list" THEN "Raise"     \* `x in 5`: TypeError
    ELSE IF lang_pref \notin languages_other.value.items THEN "False"
    ELSE "Pass"

check_side2_skipped(gender_pref2, lang_pref2, gender1, languages1) == "Pass"

\* Lines 682-684: user2's filters against user1's profile.
check_side2(gender_pref2, lang_pref2, gender1, languages1) ==
    prefs_reject(gender_pref2, lang_pref2, gender1, languages1)

\* The body of the try block, lines 661-687.
check_mutual_match_try(user1, user2) ==
    IF intent_conflict(user1.intent, user2.intent) THEN "False"
    ELSE
    LET prefs1 == json_loads(OrText(user1.search_prefs, EmptyObjText))
        prefs2 == json_loads(OrText(user2.search_prefs, EmptyObjText))
    IN  IF prefs1.raised \/ prefs2.raised THEN "Raise"
        ELSE IF prefs1.kind # "dict" \/ prefs2.kind # "dict" THEN "Raise"  \* .get
        ELSE
        LET gender_pref1 == prefs_get(prefs1, "gender")
            lang_pref1 == prefs_get(prefs1, "language")
            gender_pref2 == prefs_get(prefs2, "gender")
            lang_pref2 == prefs_get(prefs2, "language")
            languages1 == json_loads(OrText(user1.languages, EmptyArrText))
            languages2 == json_loads(OrText(user2.languages, EmptyArrText))
        IN  IF languages1.raised \/ languages2.raised THEN "Raise"
            ELSE
            LET side1 == prefs_reject(gender_pref1, lang_pref1, user2.gender, languages2)
                side2 == check_side2(gender_pref2, lang_pref2, user1.gender, languages1)
            IN  IF side1 # "Pass" THEN side1
                ELSE IF side2 # "Pass" THEN side2
                ELSE IF ~has_key(user1, "user_id") \/ ~has_key(user2, "user_id")
                     THEN "Raise"                       \* line 686: KeyError
                ELSE "True"

check_mutual_match_noexcept(user1, user2) == check_mutual_match_try(user1, user2)

\* Lines 660, 688-690: `except Exception: return False`.
check_mutual_match_outcome(user1, user2) ==
    IF check_mutual_match_try(user1, user2) = "Raise" THEN "False"
    ELSE check_mutual_match_try(user1, user2)

check_mutual_match(user1, user2) == check_mutual_match_outcome(user1, user2) = "True"

-----------------------------------------------------------------------------
(* run_matching_algorithm (src/main.py:970-985): the loop over the         *)
(* snapshot. random.choice is a nondeterministic choice, so the loop's     *)
(* value is the set of its possible runs; a run is the sequence of pairs   *)
(* handed to match_users, and whether an exception ended it.               *)

\* list.remove(x): the list without its first element equal to x.
RECURSIVE list_remove(_, _)
list_remove(list, x) ==
    IF list = <<>> THEN <<>>
    ELSE IF Head(list) = x THEN Tail(list)
    ELSE <<Head(list)>> \o list_remove(Tail(list), x)

after_match_keep(users_to_match, chosen_partner) == users_to_match

\* Line 983: users_to_match.remove(chosen_partner).
after_match(users_to_match, chosen_partner) == list_remove(users_to_match, chosen_partner)

\* Lines 976-985, on the working list users_to_match.
RECURSIVE matching_loop(_)
matching_loop(users_to_match) ==
    IF Len(users_to_match) < 2 THEN {[pairs |-> <<>>, raised |-> FALSE]}
    ELSE
    LET searcher == Head(users_to_match)              \* pop(0)
        rest == Tail(users_to_match)
        outcome == [i \in 1..Len(rest) |-> check_mutual_match_outcome(searcher, rest[i])]
        eligible_partners == {i \in 1..Len(rest) : outcome[i] = "True"}
    IN  IF \E i \in 1..Len(rest) : outcome[i] = "Raise"
        THEN {[pairs |-> <<>>, raised |-> TRUE]}
        ELSE IF eligible_partners = {} THEN matching_loop(rest)
        ELSE UNION {
            {[pairs |-> <<(<<searcher.user_id, rest[i].user_id>>)>> \o r.pairs,
              raised |-> r.raised] : r \in matching_loop(after_match(rest, rest[i]))}
            : i \in eligible_partners}

\* A pass that ends after its first searcher, paired or not.
run_first_searcher(pool) ==
    IF Len(pool) < 2 THEN {[pairs |-> <<>>, raised |-> FALSE]}
    ELSE LET rest == Tail(pool)
             eligible_partners ==
                 {i \in 1..Len(rest) : check_mutual_match_outcome(Head(pool), rest[i]) = "True"}
         IN IF eligible_partners = {} THEN {[pairs |-> <<>>, raised |-> FALSE]}
            ELSE {[pairs |-> <<(<<Head(pool).user_id, rest[i].user_id>>)>>,
                   raised |-> FALSE] : i \in eligible_partners}

\* Lines 972-975: the pass on the snapshot `pool`.
run_matching_algorithm(pool) ==
    IF Len(pool) < 2 THEN {[pairs |-> <<>>, raised |-> FALSE]}
    ELSE matching_loop(pool)

\* The ids a run paired, with multiplicity: the flattened pairs.
RECURSIVE PairedIds(_)
PairedIds(pairs) ==
    IF pairs = <<>> THEN <<>>
    ELSE <<Head(pairs)[1], Head(pairs)[2]>> \o PairedIds(Tail(pairs))

NoDuplicates(seq) == \A i, j \in 1..Len(seq) : i # j => seq[i] # seq[j]

-----------------------------------------------------------------------------
(* The store.                                                              *)

Clients == {1, 2, 3}
NoOne == 0                          \* NULL in partner_id
NoChat == 0                         \* NULL in last_chat_id
NoMsg == 0                          \* NULL in pinned_message_id
MaxOps == 2                         \* updates dispatched in one behaviour

\* The profiles of the three users, as onboarding left them: 1 is premium.
Cast ==
    (1 :> [gender |-> "Male", intent |-> "CasualTalk",
           languages |-> json_dumps_langs({"English"}), is_premium |-> 1]) @@
    (2 :> [gender |-> "Female", intent |-> AnythingGoes,
           languages |-> json_dumps_langs({"English", "Spanish"}), is_premium |-> 0]) @@
    (3 :> [gender |-> "Male", intent |-> AnythingGoes,
           languages |-> json_dumps_langs({"Spanish"}), is_premium |-> 0])

\* What a premium user picks in the PREF_GENDER / PREF_LANGUAGE dialog.
PrefChoices == {<<"Male", "English">>, <<"Any", "Any">>}

\* A new row of table sessions (lines 109-119): state DEFAULT 'idle'.
NewSession ==
    [state |-> "idle", partner_id |-> NoOne, last_chat_id |-> NoChat,
     pinned_message_id |-> NoMsg,
     search_prefs |-> NullPrefs, original_search_prefs |-> NullPrefs]

\* The columns match_users writes (lines 873-874).
in_chat_with(row, partner_id, chat_id) ==
    [row EXCEPT !.state = "in_chat", !.partner_id = partner_id, !.last_chat_id = chat_id]

\* get_user_data (lines 169-173): users LEFT JOIN sessions.
get_user_data(user_id) ==
    [user_id |-> user_id,
     gender |-> users[user_id].gender,
     intent |-> users[user_id].intent,
     languages |-> users[user_id].languages,
     is_premium |-> users[user_id].is_premium,
     state |-> sessions[user_id].state,
     partner_id |-> sessions[user_id].partner_id,
     last_chat_id |-> sessions[user_id].last_chat_id,
     pinned_message_id |-> sessions[user_id].pinned_message_id,
     search_prefs |-> sessions[user_id].search_prefs,
     original_search_prefs |-> sessions[user_id].original_search_prefs]

\* is_premium (lines 239-241).
is_premium(user_id) == get_user_data(user_id).is_premium = 1

\* The sequences that list each element of S once.
Orderings(S) ==
    {f \in [1..Cardinality(S) -> S] : \A i, j \in 1..Cardinality(S) : i # j => f[i] # f[j]}

\* The rows of every user, whatever the state.
get_waiting_pool_all ==
    {[i \in 1..Cardinality(Clients) |-> get_user_data(ord[i])] : ord \in Orderings(Clients)}

\* get_waiting_pool (lines 210-214): the rows with state = 'waiting'. The
\* query has no ORDER BY, so the rows come in any order.
get_waiting_pool ==
    LET waiting == {c \in Clients : sessions[c].state = "waiting"}
    IN {[i \in 1..Cardinality(waiting) |-> get_user_data(ord[i])] : ord \in Orderings(waiting)}

-----------------------------------------------------------------------------
(* Processes. A handler record holds the position pc and the locals:       *)
(* uid, the user the current call works on; data, what the call read;     *)
(* m, the locals of match_users or end_chat; token, the invite token;      *)
(* relay, the message ids of a relay; initiator_id, the sender of the      *)
(* reconnect request being accepted;                                       *)
(* after/action, what the caller does when the call returns.               *)

Procs == Clients \X {"upd", "job", "act"}
Upd(c) == <<c, "upd">>
Job(c) == <<c, "job">>
Act(c) == <<c, "act">>
Unlocked == <<NoOne, "none">>       \* MATCH_LOCK held by no process

NoData == [search_prefs |-> NullPrefs, intent |-> NULL]
NoM == [user1_id |-> NoOne, user2_id |-> NoOne, chat_id |-> NoChat]
NoRelay == [message_id |-> NoMsg, replied_to |-> NoMsg, reply_to_msg_id |-> NoMsg,
            sent_message |-> NoMsg]
Idle == [pc |-> "idle", uid |-> NoOne, data |-> NoData, m |-> NoM,
         after |-> "return", action |-> "none", token |-> 0, relay |-> NoRelay,
         initiator_id |-> NoOne]

At(p, pc) == handlers[p].pc = pc
Goto(p, rec) == handlers' = [handlers EXCEPT ![p] = rec]
Return(p) == Goto(p, Idle)

\* Dispatch as it would be with concurrent_updates: an update of user c is
\* taken while the handlers of other users are still running.
CanDispatchConcurrent(c) == At(Upd(c), "idle") /\ ops < MaxOps

\* An update of user c can be dispatched. The application is built without
\* concurrent_updates (line 1527) and no handler is registered non-blocking:
\* an update is taken when the handler of the previous one has returned.
\* Tasks and jobs run beside the handler. The behaviour has updates left.
CanDispatch(c) == (\A d \in Clients : At(Upd(d), "idle")) /\ ops < MaxOps

\* Users 1 and 2 in the chat a pass made of them: 1 searched with the
\* preferences (Any, English), saved by pref_language_callback.
InChat12 ==
    (1 :> [in_chat_with(NewSession, 2, 1) EXCEPT
              !.pinned_message_id = 1,
              !.search_prefs = json_dumps_prefs("Any", "English"),
              !.original_search_prefs = json_dumps_prefs("Any", "English")]) @@
    (2 :> [in_chat_with(NewSession, 1, 1) EXCEPT !.pinned_message_id = 1]) @@
    (3 :> NewSession)

\* The message ids when the notices of that chat are pinned.
Pinned12 == (1 :> 1) @@ (2 :> 1) @@ (3 :> NoMsg)

OpenChat12 ==
    <<[user1_id |-> 1, user2_id |-> 2, end_time |-> NULL, committed |-> TRUE,
       user1_wants_favorite |-> 0, user2_wants_favorite |-> 0]>>

\* No message relayed, no connection made, no chat ended.
NoSide ==
    /\ message_map = {}
    /\ connections = <<>>
    /\ timers = {}
    /\ ended = {}
    /\ media_to_forward = [c \in Clients |-> NoMsg]

\* The store between updates: everybody idle, or users 1 and 2 chatting.
InitStore ==
    /\ users = Cast
    /\ \/ /\ sessions = [c \in Clients |-> NewSession]
          /\ chat_history = <<>>
          /\ msg_seq = [c \in Clients |-> NoMsg]
       \/ /\ sessions = InChat12
          /\ chat_history = OpenChat12
          /\ msg_seq = Pinned12
    /\ invites = <<>>
    /\ match_lock = Unlocked
    /\ handlers = [p \in Procs |-> Idle]
    /\ tasks = <<>>
    /\ jobs = [c \in Clients |-> 0]
    /\ menus = [c \in Clients |-> {}]
    /\ ops = 0
    /\ picked = [c \in Clients |-> 0]
    /\ NoSide

\* The store at rest: nobody searching, no chat, no invite.
QuietStore ==
    /\ users = Cast
    /\ sessions = [c \in Clients |-> NewSession]
    /\ chat_history = <<>>
    /\ invites = <<>>
    /\ match_lock = Unlocked
    /\ handlers = [p \in Procs |-> Idle]
    /\ tasks = <<>>
    /\ jobs = [c \in Clients |-> 0]
    /\ menus = [c \in Clients |-> {}]
    /\ ops = 0
    /\ picked = [c \in Clients |-> 0]
    /\ NoSide
    /\ msg_seq = [c \in Clients |-> NoMsg]

\* The relay map, the connections, and the record of end_chat.
sideVars == <<message_map, connections, timers, ended, msg_seq, media_to_forward>>

storeVars == <<users, sessions, chat_history, invites, match_lock,
               handlers, tasks, jobs, menus, ops, picked, sideVars>>

-----------------------------------------------------------------------------
(* add_to_pool_and_match (lines 721-750), called by process p for uid.     *)

\* Line 726: user_data = await get_user_data(user_id).
EnterPool(p, uid, after, action) ==
    [pc |-> "enq_write", uid |-> uid,
     data |-> [search_prefs |-> get_user_data(uid).search_prefs,
               intent |-> get_user_data(uid).intent],
     m |-> NoM, after |-> after, action |-> action, token |-> 0, relay |-> NoRelay,
     initiator_id |-> handlers[p].initiator_id]

arms_fallback_intent(user_id, user_data) ==
    user_data.intent # NULL /\ user_data.intent # AnythingGoes

\* Lines 740-747, on the user_data read at line 726.
arms_fallback(user_id, user_data) ==
    LET prefs == json_loads(OrText(user_data.search_prefs, EmptyObjText))
        has_premium_prefs ==
            /\ is_premium(user_id)
            /\ \/ prefs_get(prefs, "gender") # "Any"
               \/ prefs_get(prefs, "language") # "Any"
        has_specific_intent == user_data.intent # NULL /\ user_data.intent # AnythingGoes
    IN has_premium_prefs \/ has_specific_intent

\* Lines 735-748: the session becomes waiting; the fallback job is scheduled.
EnqWrite(p) ==
    /\ At(p, "enq_write")
    /\ LET h == handlers[p] IN
       /\ sessions' = [sessions EXCEPT ![h.uid].state = "waiting"]
       /\ picked' = [picked EXCEPT ![h.uid] = 0]
       /\ jobs' = IF arms_fallback(h.uid, h.data)
                  THEN [jobs EXCEPT ![h.uid] = @ + 1] ELSE jobs
       /\ Goto(p, [h EXCEPT !.pc = "pass_lock"])
    /\ UNCHANGED <<probe, sideVars, users, chat_history, invites, match_lock, tasks, menus, ops>>

\* Line 971: async with MATCH_LOCK.
PassLock(p) ==
    /\ At(p, "pass_lock")
    /\ match_lock = Unlocked
    /\ match_lock' = p
    /\ Goto(p, [handlers[p] EXCEPT !.pc = "pass_scan"])
    /\ UNCHANGED <<probe, sideVars, users, sessions, chat_history, invites, tasks, jobs, menus,
                   ops, picked>>

\* asyncio.create_task(match_users(...)) for each pair of the run, line 982.
Spawned(pairs) ==
    [i \in 1..Len(pairs) |->
        [user1_id |-> pairs[i][1], user2_id |-> pairs[i][2],
         chat_id |-> NoChat, pc |-> "mu_insert"]]

Bump(count, ids) ==
    [c \in Clients |-> count[c] + Cardinality({i \in 1..Len(ids) : ids[i] = c})]

\* The call made by process p returns. message_handler then spawns the exit
\* action of its user (lines 1190-1193) and ends; accept_reconnect_callback
\* goes on to line 1472; the other callers end.
Finish(p) ==
    IF handlers[p].after = "spawn_action"
    THEN handlers' = [handlers EXCEPT
             ![p] = Idle,
             ![Act(p[1])] = [Idle EXCEPT !.pc = "ia_read", !.uid = p[1],
                                         !.action = handlers[p].action]]
    ELSE IF handlers[p].after = "reconnect"
    THEN Goto(p, [Idle EXCEPT !.pc = "ar_check", !.uid = p[1],
                              !.action = handlers[p].action,
                              !.initiator_id = handlers[p].initiator_id])
    ELSE Return(p)

\* The lock left with its holder when the pass returns at line 975.
lock_kept_on_return(p, pool) == IF Len(pool) < 2 THEN p ELSE Unlocked

\* Line 971: `async with MATCH_LOCK` releases the lock however the block is
\* left: by the return of line 975, at the end of the loop, or by an exception.
lock_after_pass(p, pool) == Unlocked

\* Lines 972-985: the snapshot, the loop, and the release of the lock. The
\* loop has no suspension point, so it is one step with the snapshot's arrival.
PassScan(p) ==
    /\ At(p, "pass_scan")
    /\ match_lock = p
    /\ \E pool \in get_waiting_pool :
       \E run \in run_matching_algorithm(pool) :
          /\ tasks' = tasks \o Spawned(run.pairs)
          /\ picked' = Bump(picked, PairedIds(run.pairs))
          /\ match_lock' = lock_after_pass(p, pool)
    /\ Finish(p)
    /\ UNCHANGED <<probe, sideVars, users, sessions, chat_history, invites, jobs, menus, ops>>

-----------------------------------------------------------------------------
(* match_users (lines 852-927).                                            *)

\* Line 868: INSERT INTO chat_history ... RETURNING chat_id, inside the
\* transaction of line 865: the row is not visible to others until the commit.
mu_insert(m) ==
    /\ chat_history' = Append(chat_history,
           [user1_id |-> m.user1_id, user2_id |-> m.user2_id,
            end_time |-> NULL, committed |-> FALSE,
            user1_wants_favorite |-> 0, user2_wants_favorite |-> 0])
    /\ UNCHANGED <<sessions, msg_seq, timers>>

\* Line 873: update_user_data(user1_id, ...), on a connection of its own.
mu_write1(m) ==
    /\ sessions' = [sessions EXCEPT ![m.user1_id] = in_chat_with(@, m.user2_id, m.chat_id)]
    /\ UNCHANGED <<chat_history, msg_seq, timers>>

\* Line 874: update_user_data(user2_id, ...).
mu_write2(m) ==
    /\ sessions' = [sessions EXCEPT ![m.user2_id] = in_chat_with(@, m.user1_id, m.chat_id)]
    /\ UNCHANGED <<chat_history, msg_seq, timers>>

\* Lines 877 and 889-893: with no connection between the two users and one
\* of them premium, run_once(send_favorite_option_job, ...) for the chat.
favorite_option_job(m) ==
    IF /\ ~\E i \in 1..Len(connections) :
              {connections[i].user1_id, connections[i].user2_id} = {m.user1_id, m.user2_id}
       /\ is_premium(m.user1_id) \/ is_premium(m.user2_id)
    THEN {[name |-> "favorite", user_id |-> m.user1_id, chat_id |-> m.chat_id]}
    ELSE {}

\* The end of `async with conn.transaction()`: the inserted row is committed;
\* the favorite job is scheduled next.
mu_commit(m) ==
    /\ chat_history' = [chat_history EXCEPT ![m.chat_id].committed = TRUE]
    /\ timers' = timers \cup favorite_option_job(m)
    /\ UNCHANGED <<sessions, msg_seq>>

\* Lines 922-927: the notice with the partner's name is sent to user_id and
\* pinned, and its message_id saved; a pin that fails saves nothing.
mu_pin(user_id) ==
    /\ msg_seq' = [msg_seq EXCEPT ![user_id] = @ + 1]
    /\ \E pinned \in BOOLEAN :
        sessions' = IF pinned
                    THEN [sessions EXCEPT ![user_id].pinned_message_id = msg_seq[user_id] + 1]
                    ELSE sessions
    /\ UNCHANGED <<chat_history, timers>>

\* One step of match_users on the locals m, and the locals after it.
match_users_step(m) ==
    CASE m.pc = "mu_insert" -> mu_insert(m)
      [] m.pc = "mu_write1" -> mu_write1(m)
      [] m.pc = "mu_write2" -> mu_write2(m)
      [] m.pc = "mu_commit" -> mu_commit(m)
      [] m.pc = "mu_pin1" -> mu_pin(m.user1_id)
      [] m.pc = "mu_pin2" -> mu_pin(m.user2_id)

match_users_next(m) ==
    CASE m.pc = "mu_insert" ->
            [m EXCEPT !.pc = "mu_write1", !.chat_id = Len(chat_history) + 1]
      [] m.pc = "mu_write1" -> [m EXCEPT !.pc = "mu_write2"]
      [] m.pc = "mu_write2" -> [m EXCEPT !.pc = "mu_commit"]
      [] m.pc = "mu_commit" -> [m EXCEPT !.pc = "mu_pin1"]
      [] m.pc = "mu_pin1" -> [m EXCEPT !.pc = "mu_pin2"]
      [] m.pc = "mu_pin2" -> [m EXCEPT !.pc = "done"]

RemoveAt(seq, i) == SubSeq(seq, 1, i - 1) \o SubSeq(seq, i + 1, Len(seq))

\* A task spawned by a matching pass takes its next step.
TaskStep ==
    \E i \in 1..Len(tasks) :
        /\ match_users_step(tasks[i])
        /\ tasks' = IF match_users_next(tasks[i]).pc = "done"
                    THEN RemoveAt(tasks, i)
                    ELSE [tasks EXCEPT ![i] = match_users_next(tasks[i])]
        /\ UNCHANGED <<probe, message_map, connections, ended, media_to_forward, users, invites,
                       match_lock, handlers, jobs, menus, ops, picked>>

-----------------------------------------------------------------------------
(* Searching: find_stranger_entry, pref_language_callback, cancel_search.  *)

\* Lines 692-719. A basic user goes straight to add_to_pool_and_match; a
\* premium user first saves the preferences picked in the dialog (line 715).
FindStranger(c) ==
    /\ CanDispatch(c)
    /\ ops' = ops + 1
    /\ IF is_premium(c)
       THEN \E choice \in PrefChoices :
            /\ sessions' = [sessions EXCEPT
                   ![c].search_prefs = json_dumps_prefs(choice[1], choice[2]),
                   ![c].original_search_prefs = json_dumps_prefs(choice[1], choice[2])]
            /\ Goto(Upd(c), [Idle EXCEPT !.pc = "enq_read", !.uid = c])
       ELSE /\ Goto(Upd(c), EnterPool(Upd(c), c, "return", "none"))
            /\ UNCHANGED sessions
    /\ UNCHANGED <<probe, sideVars, users, chat_history, invites, match_lock, tasks, jobs, menus,
                   picked>>

\* Line 726, when the caller's own store access came first.
EnqRead(p) ==
    /\ At(p, "enq_read")
    /\ Goto(p, EnterPool(p, handlers[p].uid, handlers[p].after, handlers[p].action))
    /\ UNCHANGED <<probe, sideVars, users, sessions, chat_history, invites, match_lock, tasks,
                   jobs, menus, ops, picked>>

\* Lines 987-998: cancel_search writes state = idle, whatever the state was.
CancelSearch(c) ==
    /\ CanDispatch(c)
    /\ ops' = ops + 1
    /\ sessions' = [sessions EXCEPT ![c].state = "idle"]
    /\ UNCHANGED <<probe, sideVars, users, chat_history, invites, match_lock, handlers, tasks,
                   jobs, menus, picked>>

-----------------------------------------------------------------------------
(* Invites: create_invite_link, cancel_invite, handle_invite_join.         *)

Tokens == 1..Len(invites)

INVITE_TTL == 300                   \* seconds, line 270

\* time.time() - creation_time, at the moments the model looks at an invite.
Ages == {0, INVITE_TTL, INVITE_TTL + 1}

expired_late(invite) == invite.age > INVITE_TTL + 1

\* Line 270: time.time() - invite['creation_time'] > 300.
expired(invite) == invite.age > INVITE_TTL

delete_invite_kept(rows, token) == rows

\* DELETE FROM invites WHERE invite_token = $1 (lines 272, 283, 289).
delete_invite(rows, token) == [rows EXCEPT ![token].present = FALSE]

\* Lines 584-589: INSERT INTO invites.
CreateInvite(c) ==
    /\ CanDispatch(c)
    /\ ops' = ops + 1
    /\ invites' = Append(invites, [host_user_id |-> c, present |-> TRUE, age |-> 0,
                                   redeemed |-> <<>>])
    /\ Goto(Upd(c), [Idle EXCEPT !.pc = "inv_hosting", !.uid = c])
    /\ UNCHANGED <<probe, sideVars, users, sessions, chat_history, match_lock, tasks, jobs, menus,
                   picked>>

\* Line 596: update_user_data(user_id, {"state": "hosting"}).
InviteHosting(p) ==
    /\ At(p, "inv_hosting")
    /\ sessions' = [sessions EXCEPT ![handlers[p].uid].state = "hosting"]
    /\ Return(p)
    /\ UNCHANGED <<probe, sideVars, users, chat_history, invites, match_lock, tasks, jobs, menus,
                   ops, picked>>

\* Lines 616-620: DELETE FROM invites WHERE invite_token = $1 AND host_user_id = $2.
\* The button carries a token this user created.
CancelInvite(c) ==
    /\ CanDispatch(c)
    /\ \E token \in Tokens :
        /\ invites[token].host_user_id = c
        /\ invites' = [invites EXCEPT ![token].present = FALSE]
    /\ ops' = ops + 1
    /\ Goto(Upd(c), [Idle EXCEPT !.pc = "inv_idle", !.uid = c])
    /\ UNCHANGED <<probe, sideVars, users, sessions, chat_history, match_lock, tasks, jobs, menus,
                   picked>>

\* Line 623: update_user_data(user_id, {"state": "idle"}).
InviteIdle(p) ==
    /\ At(p, "inv_idle")
    /\ sessions' = [sessions EXCEPT ![handlers[p].uid].state = "idle"]
    /\ Return(p)
    /\ UNCHANGED <<probe, sideVars, users, chat_history, invites, match_lock, tasks, jobs, menus,
                   ops, picked>>

\* Time passes for an invite (creation_time, line 588, against line 270).
InviteAges ==
    /\ \E token \in Tokens : \E age \in Ages :
        /\ invites[token].present
        /\ age > invites[token].age
        /\ invites' = [invites EXCEPT ![token].age = age]
    /\ UNCHANGED <<probe, sideVars, users, sessions, chat_history, match_lock, handlers, tasks,
                   jobs, menus, ops, picked>>

\* The record of a redemption: what the handler found and how it ended.
Redemption(guest, invite, outcome) ==
    [guest_id |-> guest, outcome |-> outcome, found |-> invite.present,
     age |-> invite.age, host_state |-> "unread"]

\* The redemption of guest that is under way, with the field set to value.
Redeeming(redeemed, guest, field, value) ==
    [i \in 1..Len(redeemed) |->
        IF redeemed[i].guest_id = guest /\ redeemed[i].outcome = "checking"
        THEN [redeemed[i] EXCEPT ![field] = value]
        ELSE redeemed[i]]

\* Lines 261-278 of handle_invite_join: the SELECT and the checks on its row.
InviteJoin(guest) ==
    /\ CanDispatch(guest)
    /\ ops' = ops + 1
    /\ \E token \in Tokens :
        LET invite == invites[token]
            h == [Idle EXCEPT !.token = token,
                              !.m = [NoM EXCEPT !.user1_id = invite.host_user_id,
                                                !.user2_id = guest]]
            outcome == IF ~invite.present THEN "invalid"
                       ELSE IF expired(invite) THEN "expired"
                       ELSE IF invite.host_user_id = guest THEN "own_link"
                       ELSE "checking"
        IN  /\ invites' = [invites EXCEPT ![token].redeemed =
                              Append(@, Redemption(guest, invite, outcome))]
            /\ IF outcome = "expired"
               THEN Goto(Upd(guest), [h EXCEPT !.pc = "ij_delete", !.after = "return"])
               ELSE IF outcome = "checking"
               THEN Goto(Upd(guest), [h EXCEPT !.pc = "ij_host"])
               ELSE Return(Upd(guest))
    /\ UNCHANGED <<probe, sideVars, users, sessions, chat_history, match_lock, tasks,
                   jobs, menus, picked>>

\* Lines 280-281: host_data = await get_user_data(host_user_id).
InviteJoinHost(p) ==
    /\ At(p, "ij_host")
    /\ LET h == handlers[p]
           host_data == get_user_data(h.m.user1_id)
       IN /\ Goto(p, [h EXCEPT !.pc = "ij_delete",
                               !.after = IF host_data.state # "hosting"
                                         THEN "return" ELSE "match"])
          /\ invites' = [invites EXCEPT ![h.token].redeemed =
                            Redeeming(@, h.m.user2_id, "host_state", host_data.state)]
    /\ UNCHANGED <<probe, sideVars, users, sessions, chat_history, match_lock, tasks,
                   jobs, menus, ops, picked>>

\* Lines 272, 283, 289: DELETE FROM invites; line 291 then calls match_users.
InviteJoinDelete(p) ==
    /\ At(p, "ij_delete")
    /\ LET h == handlers[p] IN
       /\ invites' = [delete_invite(invites, h.token) EXCEPT ![h.token].redeemed =
                         Redeeming(@, h.m.user2_id, "outcome",
                                   IF h.after = "match" THEN "accepted" ELSE "host_gone")]
       /\ IF h.after = "return" THEN Return(p)
          ELSE Goto(p, [h EXCEPT !.pc = "mu_insert", !.after = "return"])
    /\ UNCHANGED <<probe, sideVars, users, sessions, chat_history, match_lock, tasks, jobs, menus,
                   ops, picked>>

\* match_users awaited by a handler (line 291): its locals are the handler's.
Inline(h) == [user1_id |-> h.m.user1_id, user2_id |-> h.m.user2_id,
              chat_id |-> h.m.chat_id, pc |-> h.pc]

InlineMatchStep(p) ==
    /\ handlers[p].pc \in {"mu_insert", "mu_write1", "mu_write2", "mu_commit",
                          "mu_pin1", "mu_pin2"}
    /\ LET h == handlers[p]
           n == match_users_next(Inline(h))
       IN /\ match_users_step(Inline(h))
          /\ IF n.pc = "done" THEN Return(p)
             ELSE Goto(p, [h EXCEPT !.pc = n.pc, !.m.chat_id = n.chat_id])
    /\ UNCHANGED <<probe, message_map, connections, ended, media_to_forward, users, invites,
                   match_lock, tasks, jobs, menus, ops, picked>>

-----------------------------------------------------------------------------
(* end_chat (lines 1000-1050), called by process p for handlers[p].uid.    *)

\* clear_chat_maps (lines 234-237): DELETE FROM message_map WHERE chat_id = $1,
\* skipped when chat_id is None.
clear_chat_maps(chat_id) ==
    IF chat_id = NoChat THEN message_map
    ELSE {row \in message_map : row.chat_id # chat_id}

reset_data_pinned(row) ==
    [row EXCEPT !.state = "idle", !.partner_id = NoOne, !.last_chat_id = NoChat]

\* Line 1033: the columns end_chat resets.
reset_data(row) ==
    [row EXCEPT !.state = "idle", !.partner_id = NoOne, !.pinned_message_id = NoMsg,
                !.last_chat_id = NoChat]

\* message_handler as it would be with lines 1181-1187 left out.
AfterEndChatSpawnFirst(p, partner_id) == Finish(p)

\* The caller's code after end_chat returned partner_id: message_handler,
\* lines 1181-1187, turns to the partner; with no partner it is at line 1190.
\* The caller at line 1224 does nothing with what end_chat returns;
\* accept_reconnect_callback, lines 1466-1468, sends the partner to the pool.
AfterEndChat(p, partner_id) ==
    IF handlers[p].after = "spawn_action" /\ partner_id # NoOne
    THEN Goto(p, [handlers[p] EXCEPT !.pc = "mh_partner", !.uid = partner_id, !.m = NoM])
    ELSE IF handlers[p].after = "reconnect" /\ partner_id # NoOne
    THEN Goto(p, [handlers[p] EXCEPT !.pc = "enq_read", !.uid = partner_id, !.m = NoM])
    ELSE Finish(p)

\* `return partner_id, chat_duration, last_chat_id` (lines 1007 and 1050).
EndChatReturns(user_id, partner_id, last_chat_id) ==
    ended' = ended \cup {[user_id |-> user_id, partner_id |-> partner_id,
                          last_chat_id |-> last_chat_id]}

\* Lines 1041-1048: run_once(vibe_check_job, ...) for each of the two users.
vibe_checks(user_id, partner_id, last_chat_id) ==
    {[name |-> "vibe_check", user_id |-> uid, chat_id |-> last_chat_id] :
        uid \in {u \in {user_id, partner_id} : u # NoOne /\ last_chat_id # NoChat}}

not_in_chat_idle(user_data) == user_data.state = "idle"

\* Line 1006: user_data.get("state") != "in_chat".
not_in_chat(user_data) == user_data.state # "in_chat"

\* Lines 1005-1012: the read, and the early return when not in_chat.
EndChatRead(p) ==
    /\ At(p, "ec_read")
    /\ LET h == handlers[p]
           user_data == get_user_data(h.uid)
       IN IF not_in_chat(user_data)
          THEN /\ AfterEndChat(p, NoOne)
               /\ EndChatReturns(h.uid, NoOne, NoChat)
          ELSE /\ Goto(p, [h EXCEPT
                     !.pc = IF user_data.last_chat_id # NoChat THEN "ec_stamp" ELSE "ec_clear",
                     !.m = [user1_id |-> h.uid, user2_id |-> user_data.partner_id,
                            chat_id |-> user_data.last_chat_id]])
               /\ UNCHANGED ended
    /\ UNCHANGED <<probe, msg_seq, media_to_forward, message_map, connections, timers, users, sessions, chat_history,
                   invites, match_lock, tasks, jobs, menus, ops, picked>>

\* Lines 1014-1020: UPDATE chat_history SET end_time. A row whose inserting
\* transaction has not committed is not visible to the UPDATE.
EndChatStamp(p) ==
    /\ At(p, "ec_stamp")
    /\ LET h == handlers[p] IN
       /\ chat_history' = IF chat_history[h.m.chat_id].committed
                          THEN [chat_history EXCEPT ![h.m.chat_id].end_time = "stamped"]
                          ELSE chat_history
       /\ Goto(p, [h EXCEPT !.pc = "ec_clear"])
    /\ UNCHANGED <<probe, sideVars, users, sessions, invites, match_lock, tasks, jobs, menus, ops,
                   picked>>

\* Line 1023: await clear_chat_maps(last_chat_id). The reads of lines
\* 1024-1031 (the pinned notices to unpin) change nothing in the store.
EndChatClear(p) ==
    /\ At(p, "ec_clear")
    /\ message_map' = clear_chat_maps(handlers[p].m.chat_id)
    /\ Goto(p, [handlers[p] EXCEPT !.pc = "ec_write1"])
    /\ UNCHANGED <<probe, msg_seq, media_to_forward, connections, timers, ended, users, sessions, chat_history, invites,
                   match_lock, tasks, jobs, menus, ops, picked>>

\* Line 1034: update_user_data(user_id, reset_data); with no partner the
\* call goes on to lines 1041-1050.
EndChatWrite1(p) ==
    /\ At(p, "ec_write1")
    /\ LET h == handlers[p] IN
       /\ sessions' = [sessions EXCEPT ![h.m.user1_id] = reset_data(@)]
       /\ IF h.m.user2_id # NoOne
          THEN /\ Goto(p, [h EXCEPT !.pc = "ec_write2"])
               /\ UNCHANGED <<timers, ended>>
          ELSE /\ AfterEndChat(p, NoOne)
               /\ timers' = timers \cup vibe_checks(h.m.user1_id, NoOne, h.m.chat_id)
               /\ EndChatReturns(h.m.user1_id, NoOne, h.m.chat_id)
    /\ UNCHANGED <<probe, msg_seq, media_to_forward, message_map, connections, users, chat_history, invites, match_lock,
                   tasks, jobs, menus, ops, picked>>

\* Lines 1035-1050: update_user_data(partner_id, reset_data), the notice to
\* the partner and the job that deletes it, the vibe checks, and the return.
EndChatWrite2(p) ==
    /\ At(p, "ec_write2")
    /\ LET h == handlers[p] IN
       /\ sessions' = [sessions EXCEPT ![h.m.user2_id] = reset_data(@)]
       /\ timers' = timers
              \cup {[name |-> "delete_job", user_id |-> h.m.user2_id, chat_id |-> h.m.chat_id]}
              \cup vibe_checks(h.m.user1_id, h.m.user2_id, h.m.chat_id)
       /\ EndChatReturns(h.m.user1_id, h.m.user2_id, h.m.chat_id)
       /\ AfterEndChat(p, h.m.user2_id)
    /\ UNCHANGED <<probe, msg_seq, media_to_forward, message_map, connections, users, chat_history, invites, match_lock,
                   tasks, jobs, menus, ops, picked>>

-----------------------------------------------------------------------------
(* message_handler, chat controls (lines 1167-1196), and                   *)
(* handle_initiator_action (lines 1149-1165).                              *)

\* Lines 1171-1177: "Next" or "Stop" typed by c. One exit action per user
\* is in flight at a time. An exit sends two users back to the pool (the
\* partner at line 1187, the initiator at line 1162): it counts for two updates.
ExitChat(c) ==
    /\ CanDispatch(c)
    /\ At(Act(c), "idle")
    /\ ops + 2 <= MaxOps
    /\ ops' = ops + 2
    /\ \E action \in {"Next", "Stop"} :
        IF get_user_data(c).state = "in_chat"
        THEN Goto(Upd(c), [Idle EXCEPT !.pc = "ec_read", !.uid = c,
                                       !.after = "spawn_action", !.action = action])
        ELSE Return(Upd(c))
    /\ UNCHANGED <<probe, sideVars, users, sessions, chat_history, invites, match_lock, tasks,
                   jobs, menus, picked>>

\* Lines 1183-1185: partner_data = await get_user_data(partner_id).
ExitPartnerRead(p) ==
    /\ At(p, "mh_partner")
    /\ LET h == handlers[p]
           partner_data == get_user_data(h.uid)
       IN IF partner_data.original_search_prefs.t # "null"
          THEN Goto(p, [h EXCEPT !.pc = "mh_restore",
                                 !.data.search_prefs = partner_data.original_search_prefs])
          ELSE Goto(p, [h EXCEPT !.pc = "enq_read"])
    /\ UNCHANGED <<probe, sideVars, users, sessions, chat_history, invites, match_lock, tasks,
                   jobs, menus, ops, picked>>

\* Line 1186: update_user_data(partner_id, {"search_prefs": partner_prefs_str}).
ExitPartnerRestore(p) ==
    /\ At(p, "mh_restore")
    /\ LET h == handlers[p] IN
       /\ sessions' = [sessions EXCEPT ![h.uid].search_prefs = h.data.search_prefs]
       /\ Goto(p, [h EXCEPT !.pc = "enq_read"])
    /\ UNCHANGED <<probe, sideVars, users, chat_history, invites, match_lock, tasks, jobs, menus,
                   ops, picked>>

\* Lines 1155-1165: the read; "Stop" with nothing to restore ends here.
ActionRead(p) ==
    /\ At(p, "ia_read")
    /\ LET h == handlers[p]
           user_data == get_user_data(h.uid)
       IN IF user_data.original_search_prefs.t # "null"
          THEN Goto(p, [h EXCEPT !.pc = "ia_restore",
                                 !.data.search_prefs = user_data.original_search_prefs])
          ELSE IF h.action = "Next" THEN Goto(p, [h EXCEPT !.pc = "enq_read"])
          ELSE Return(p)
    /\ UNCHANGED <<probe, sideVars, users, sessions, chat_history, invites, match_lock, tasks,
                   jobs, menus, ops, picked>>

\* Line 1157: update_user_data(user_id, {"search_prefs": original_prefs_str}).
ActionRestore(p) ==
    /\ At(p, "ia_restore")
    /\ LET h == handlers[p] IN
       /\ sessions' = [sessions EXCEPT ![h.uid].search_prefs = h.data.search_prefs]
       /\ IF h.action = "Next" THEN Goto(p, [h EXCEPT !.pc = "enq_read"])
          ELSE Return(p)
    /\ UNCHANGED <<probe, sideVars, users, chat_history, invites, match_lock, tasks, jobs, menus,
                   ops, picked>>

-----------------------------------------------------------------------------
(* unified_fallback_check (lines 752-804), the job named fallback_<id>.    *)

Option(type, gender, language) == [type |-> type, gender |-> gender, language |-> language]

gender_scan_self(user_id, gender_pref, user_intent, pool) ==
    \E i \in 1..Len(pool) :
        /\ pool[i].gender = gender_pref
        /\ pool[i].intent \in {user_intent, AnythingGoes}

\* Lines 774-778: some candidate of the pool has the wanted gender.
gender_scan(user_id, gender_pref, user_intent, pool) ==
    \E i \in 1..Len(pool) :
        /\ pool[i].user_id # user_id
        /\ pool[i].gender = gender_pref
        /\ pool[i].intent \in {user_intent, AnythingGoes}

\* Lines 782-786, in pool order: "found", "none", or "raise" when a
\* candidate's languages do not decode to a list before one is found.
RECURSIVE language_scan(_, _, _, _)
language_scan(user_id, lang_pref, user_intent, pool) ==
    IF pool = <<>> THEN "none"
    ELSE IF Head(pool).user_id = user_id
         THEN language_scan(user_id, lang_pref, user_intent, Tail(pool))
    ELSE LET languages == json_loads(OrText(Head(pool).languages, EmptyArrText))
         IN IF languages.raised \/ languages.kind # "list" THEN "raise"
            ELSE IF /\ lang_pref \in languages.value.items
                    /\ Head(pool).intent \in {user_intent, AnythingGoes}
                 THEN "found"
            ELSE language_scan(user_id, lang_pref, user_intent, Tail(pool))

\* Lines 761-794: the options of the menu; {} when an exception ends the job.
fallback_menu(user_id, user_data, pool) ==
    LET prefs == json_loads(OrText(user_data.search_prefs, EmptyObjText))
        user_intent == user_data.intent
        gender_pref == prefs_get(prefs, "gender")
        lang_pref == prefs_get(prefs, "language")
        by_language == IF is_premium(user_id) /\ lang_pref # "Any"
                       THEN language_scan(user_id, lang_pref, user_intent, pool)
                       ELSE "none"
    IN  IF prefs.raised \/ prefs.kind # "dict" \/ by_language = "raise" THEN {}
        ELSE (IF /\ is_premium(user_id) /\ gender_pref # "Any"
                 /\ gender_scan(user_id, gender_pref, user_intent, pool)
              THEN {Option("pref", gender_pref, "Any")} ELSE {})
             \cup (IF by_language = "found" THEN {Option("pref", "Any", lang_pref)} ELSE {})
             \cup (IF user_intent # NULL /\ user_intent # AnythingGoes
                   THEN {Option("intent", "", "")} ELSE {})
             \cup {Option("random", "", ""), Option("keep", "", "")}

dropped_idle(user_data) == user_data.state = "idle"

\* Line 757: user_data.get('state') != 'waiting'.
dropped(user_data) == user_data.state # "waiting"

\* The job fires: lines 754-758, the read and the drop when not waiting.
FallbackFire(c) ==
    /\ jobs[c] > 0
    /\ At(Job(c), "idle")
    /\ jobs' = [jobs EXCEPT ![c] = @ - 1]
    /\ LET user_data == get_user_data(c) IN
       IF dropped(user_data) THEN UNCHANGED handlers
       ELSE Goto(Job(c), [Idle EXCEPT !.pc = "fb_pool", !.uid = c,
                                      !.data = [search_prefs |-> user_data.search_prefs,
                                                intent |-> user_data.intent]])
    /\ UNCHANGED <<probe, sideVars, users, sessions, chat_history, invites, match_lock, tasks,
                   menus, ops, picked>>

\* Lines 763-802: pool = await get_waiting_pool(); the menu replaces the
\* searching prompt.
FallbackMenu(p) ==
    /\ At(p, "fb_pool")
    /\ \E pool \in get_waiting_pool :
        menus' = [menus EXCEPT ![handlers[p].uid] =
                     fallback_menu(handlers[p].uid, handlers[p].data, pool)]
    /\ Return(p)
    /\ UNCHANGED <<probe, sideVars, users, sessions, chat_history, invites, match_lock, tasks,
                   jobs, ops, picked>>

-----------------------------------------------------------------------------
(* The concurrent model.                                                   *)

Init ==
    /\ probe = [kind |-> "none"]
    /\ InitStore

Step(p) ==
    \/ EnqRead(p)
    \/ EnqWrite(p)
    \/ PassLock(p)
    \/ PassScan(p)
    \/ InviteHosting(p)
    \/ InviteIdle(p)
    \/ InviteJoinHost(p)
    \/ InviteJoinDelete(p)
    \/ InlineMatchStep(p)
    \/ EndChatRead(p)
    \/ EndChatStamp(p)
    \/ EndChatClear(p)
    \/ EndChatWrite1(p)
    \/ EndChatWrite2(p)
    \/ ExitPartnerRead(p)
    \/ ExitPartnerRestore(p)
    \/ ActionRead(p)
    \/ ActionRestore(p)
    \/ FallbackMenu(p)

Dispatch(c) ==
    \/ FindStranger(c)
    \/ CancelSearch(c)
    \/ CreateInvite(c)
    \/ CancelInvite(c)
    \/ InviteJoin(c)
    \/ ExitChat(c)
    \/ FallbackFire(c)

Next ==
    \/ \E c \in Clients : Dispatch(c)
    \/ \E p \in Procs : Step(p)
    \/ TaskStep
    \/ InviteAges

Spec == Init /\ [][Next]_vars

-----------------------------------------------------------------------------
(* Properties of the sessions and chats, under Spec.                       *)

\* C1: state symmetry: in every reachable state, if x is in_chat with
\* partner y then y is in_chat with partner x.
C1_StateSymmetry ==
    \A x \in Clients : \A y \in Clients :
        (sessions[x].state = "in_chat" /\ sessions[x].partner_id = y)
        => (sessions[y].state = "in_chat" /\ sessions[y].partner_id = x)

\* C2: in every reachable state and for every user, partner_id is set if
\* and only if state = in_chat.
C2_PartnerIffInChat ==
    \A c \in Clients : (sessions[c].partner_id # NoOne) <=> (sessions[c].state = "in_chat")

\* The chats of c that are visible (committed) and have no end time.
OpenChats(c) ==
    {k \in 1..Len(chat_history) :
        /\ chat_history[k].committed
        /\ chat_history[k].end_time = NULL
        /\ c \in {chat_history[k].user1_id, chat_history[k].user2_id}}

\* C5: match_users is applied as a unit: every chat with no end time has
\* both participants in_chat, each with the other as partner and this chat
\* as last_chat_id, and no user is a participant of two chats with no end time.
C5_StartIsUnit ==
    \A c \in Clients :
        /\ \A k \in OpenChats(c) :
            LET other == IF chat_history[k].user1_id = c THEN chat_history[k].user2_id
                         ELSE chat_history[k].user1_id
            IN  /\ sessions[c].state = "in_chat"
                /\ sessions[c].partner_id = other
                /\ sessions[c].last_chat_id = k
        /\ Cardinality(OpenChats(c)) <= 1

\* The snapshot without the rows of user_id.
RECURSIVE without_user(_, _)
without_user(pool, user_id) ==
    IF pool = <<>> THEN <<>>
    ELSE IF Head(pool).user_id = user_id THEN without_user(Tail(pool), user_id)
    ELSE <<Head(pool)>> \o without_user(Tail(pool), user_id)

\* C9: no self-match: no user has itself as partner; no session is being
\* started, by a pass or by an invite, between a user and itself; and the
\* menu a fallback job is about to present, whatever snapshot it gets, is
\* the menu of that snapshot without the user's own row.
C9_NoSelfMatch ==
    /\ \A c \in Clients : sessions[c].partner_id # c
    /\ \A i \in 1..Len(tasks) : tasks[i].user1_id # tasks[i].user2_id
    /\ \A k \in 1..Len(chat_history) : chat_history[k].user1_id # chat_history[k].user2_id
    /\ \A p \in Procs :
        (\/ handlers[p].pc \in {"ij_host", "mu_insert", "mu_write1", "mu_write2", "mu_commit"}
         \/ handlers[p].pc = "ij_delete" /\ handlers[p].after = "match")
        => handlers[p].m.user1_id # handlers[p].m.user2_id
    /\ \A c \in Clients : \A pool \in get_waiting_pool :
        At(Job(c), "fb_pool")
        => fallback_menu(c, handlers[Job(c)].data, pool)
           = fallback_menu(c, handlers[Job(c)].data, without_user(pool, c))

\* User 1, the only user who did anything, waits alone with a filter on its
\* own gender and language: the menu of its fallback job offers no partial match.
C9_Witness ==
    /\ ops = 1
    /\ sessions[1].state = "waiting"
    /\ sessions[1].search_prefs = json_dumps_prefs("Male", "English")
    /\ menus[1] = {Option("intent", "", ""), Option("random", "", ""), Option("keep", "", "")}

-----------------------------------------------------------------------------
(* Two basic users with the open intent and no filters, 2 and 3, enter the *)
(* pool, and nobody else waits: 2 by "Next" at the end of chat 1 with user *)
(* 1 (who was put back in the pool and has cancelled), 3 by "Find a        *)
(* Stranger". The event loop runs every task and handler it holds to its   *)
(* end, hence the weak fairness.                                           *)

\* handle_initiator_action(2, "Next") is spawned; user 1 has left the pool.
PairInit ==
    /\ probe = [kind |-> "none"]
    /\ users = Cast
    /\ sessions = [InChat12 EXCEPT ![1] = reset_data(@), ![2] = reset_data(@)]
    /\ chat_history = <<[OpenChat12[1] EXCEPT !.end_time = "stamped"]>>
    /\ invites = <<>>
    /\ match_lock = Unlocked
    /\ handlers = [p \in Procs |->
                      IF p = Act(2)
                      THEN [Idle EXCEPT !.pc = "ia_read", !.uid = 2, !.action = "Next"]
                      ELSE Idle]
    /\ tasks = <<>>
    /\ jobs = [c \in Clients |-> 0]
    /\ menus = [c \in Clients |-> {}]
    /\ ops = MaxOps - 1
    /\ picked = [c \in Clients |-> 0]
    /\ message_map = {}
    /\ connections = <<>>
    /\ timers = {[name |-> "delete_job", user_id |-> 1, chat_id |-> 1]}
                \cup vibe_checks(2, 1, 1)
    /\ ended = {[user_id |-> 2, partner_id |-> 1, last_chat_id |-> 1]}
    /\ msg_seq = Pinned12
    /\ media_to_forward = [c \in Clients |-> NoMsg]

PairNext ==
    \/ \E c \in {3} : FindStranger(c)
    \/ \E p \in Procs : ActionRead(p)
    \/ \E p \in Procs : EnqRead(p)
    \/ \E p \in Procs : EnqWrite(p)
    \/ \E p \in Procs : PassLock(p)
    \/ \E p \in Procs : PassScan(p)
    \/ TaskStep

SpecPair == PairInit /\ [][PairNext]_vars /\ WF_vars(PairNext)

\* C3: the matching lock prevents double-booking across passes: no user is
\* chosen for a session by two passes during one stay in the pool.
C3_NoDoubleBooking ==
    \A c \in Clients : picked[c] <= 1

\* Every handler has returned and every spawned task has ended.
Quiescent ==
    /\ \A p \in Procs : handlers[p] = Idle
    /\ tasks = <<>>

ChatsOf(a, b) ==
    {k \in 1..Len(chat_history) :
        {chat_history[k].user1_id, chat_history[k].user2_id} = {a, b}}

\* C10: when 2 and 3 have both entered the pool, in any interleaving, and
\* all the work this started is done, they are in_chat with each other and
\* exactly one chat was created for them, with no end time.
C10_OneChat ==
    (/\ Quiescent
     /\ sessions[2].state # "idle"
     /\ sessions[3].state # "idle")
    => /\ sessions[2].state = "in_chat" /\ sessions[2].partner_id = 3
       /\ sessions[3].state = "in_chat" /\ sessions[3].partner_id = 2
       /\ Cardinality(ChatsOf(2, 3)) = 1
       /\ \A k \in ChatsOf(2, 3) : chat_history[k].end_time = NULL

-----------------------------------------------------------------------------
(* check_mutual_match on drawn pool entries.                               *)

MatchIntents == {NULL} \cup Intents
MatchGenders == {NULL} \cup Genders
MatchLanguages ==
    {NullLangs, BadLangs, NumLangs,
     json_dumps_langs({"English"}), json_dumps_langs({"English", "Spanish"})}
MatchPrefs ==
    {NullPrefs, BadPrefs, NonObjPrefs,
     json_dumps_prefs("Male", "Absent"), json_dumps_prefs("Absent", "Spanish"),
     json_dumps_prefs("Female", "English"), json_dumps_prefs("Robot", "Klingon")}

\* The pool entries of user_id: every combination of the column values.
Entries(user_id) ==
    {[user_id |-> user_id, intent |-> i, gender |-> g, languages |-> l, search_prefs |-> s] :
        i \in MatchIntents, g \in MatchGenders, l \in MatchLanguages, s \in MatchPrefs}

\* Entries with no user_id key.
BareEntries ==
    {[intent |-> AnythingGoes, gender |-> g, languages |-> json_dumps_langs({"English"}),
      search_prefs |-> s] : g \in Genders, s \in {NullPrefs, json_dumps_prefs("Male", "Absent")}}

\* Two more entrants of the same snapshot, open and without filters.
Remaining ==
    <<[user_id |-> 3, intent |-> AnythingGoes, gender |-> "Male",
       languages |-> json_dumps_langs({"English"}), search_prefs |-> NullPrefs],
      [user_id |-> 4, intent |-> AnythingGoes, gender |-> "Female",
       languages |-> json_dumps_langs({"English"}), search_prefs |-> NullPrefs]>>

InitMatch ==
    /\ \E user1 \in Entries(1) \cup BareEntries, user2 \in Entries(2) \cup BareEntries :
        probe = [kind |-> "match_in", user1 |-> user1, user2 |-> user2]
    /\ QuietStore

\* check_mutual_match in both directions, and a pass on the snapshot that
\* starts with the two entries.
ProbeMatch ==
    /\ probe.kind = "match_in"
    /\ \E run \in run_matching_algorithm(<<probe.user1, probe.user2>> \o Remaining) :
        probe' = [kind |-> "match_out", user1 |-> probe.user1, user2 |-> probe.user2,
                  match12 |-> check_mutual_match(probe.user1, probe.user2),
                  match21 |-> check_mutual_match(probe.user2, probe.user1),
                  outcome12 |-> check_mutual_match_outcome(probe.user1, probe.user2),
                  outcome21 |-> check_mutual_match_outcome(probe.user2, probe.user1),
                  run |-> run]
    /\ UNCHANGED storeVars

SpecMatch == InitMatch /\ [][ProbeMatch]_vars

-----------------------------------------------------------------------------
(* One pass of run_matching_algorithm on drawn snapshots.                  *)

MaxPool == 4                        \* rows of the snapshot

\* What a row of the snapshot can hold besides its id.
PassProfiles ==
    {[intent |-> AnythingGoes, gender |-> "Male",
      languages |-> json_dumps_langs({"English"}), search_prefs |-> NullPrefs],
     [intent |-> "CasualTalk", gender |-> "Female",
      languages |-> json_dumps_langs({"English", "Spanish"}), search_prefs |-> NullPrefs],
     [intent |-> "Flirting", gender |-> "Male",
      languages |-> json_dumps_langs({"Spanish"}),
      search_prefs |-> json_dumps_prefs("Female", "Absent")],
     [intent |-> AnythingGoes, gender |-> "Female",
      languages |-> BadLangs, search_prefs |-> NullPrefs]}

PoolRow(user_id, profile) ==
    [user_id |-> user_id, intent |-> profile.intent, gender |-> profile.gender,
     languages |-> profile.languages, search_prefs |-> profile.search_prefs]

\* The snapshots of n rows: user_id is the primary key, so the ids differ.
Snapshots(n) ==
    {[i \in 1..n |-> PoolRow(i, profile[i])] : profile \in [1..n -> PassProfiles]}

InitPass ==
    /\ \E n \in 0..MaxPool : \E pool \in Snapshots(n) :
        probe = [kind |-> "pass_in", pool |-> pool]
    /\ QuietStore

\* Lines 972-985 on the snapshot: one of the runs random.choice allows.
ProbePass ==
    /\ probe.kind = "pass_in"
    /\ \E run \in run_matching_algorithm(probe.pool) :
        probe' = [kind |-> "pass_out", pool |-> probe.pool, run |-> run]
    /\ UNCHANGED storeVars

SpecPass == InitPass /\ [][ProbePass]_vars

\* C4: among the sessions one run of the pass starts, no user id is in more
\* than one pair.
C4_PairsDisjoint ==
    probe.kind = "pass_out" => NoDuplicates(PairedIds(probe.run.pairs))

\* A run that started two sessions.
C4_Witness ==
    /\ probe.kind = "pass_out"
    /\ Len(probe.run.pairs) = 2

-----------------------------------------------------------------------------
(* Properties of check_mutual_match, under SpecMatch.                      *)

\* C6: the compatibility check is symmetric: on every pair of entries
\* (intents and genders possibly missing, language lists and filters possibly
\* malformed), check_mutual_match(a, b) = check_mutual_match(b, a).
C6_Symmetric ==
    probe.kind = "match_out" => probe.match12 = probe.match21

\* Both directions accept a pair in which each side has a filter.
C6_Witness ==
    /\ probe.kind = "match_out"
    /\ probe.match12 /\ probe.match21
    /\ probe.user1.search_prefs = json_dumps_prefs("Female", "English")
    /\ probe.user2.search_prefs = json_dumps_prefs("Male", "Absent")

\* A well-formed entry: it has its id, its preferences decode to an object
\* and its languages to a list (a NULL column is the empty object or list).
WellFormed(user) ==
    /\ has_key(user, "user_id")
    /\ user.search_prefs.t \in {"null", "obj"}
    /\ user.languages.t \in {"null", "arr"}

DeclaresNonOpen(intent) == intent # NULL /\ intent # AnythingGoes
GenderFilter(user) == IF user.search_prefs.gender = "Absent" THEN "Any"
                      ELSE user.search_prefs.gender
LanguageFilter(user) == IF user.search_prefs.language = "Absent" THEN "Any"
                        ELSE user.search_prefs.language
Accepts(a, b) ==
    /\ GenderFilter(a) = "Any" \/ GenderFilter(a) = b.gender
    /\ LanguageFilter(a) = "Any" \/ LanguageFilter(a) \in b.languages.items

\* C7: on well-formed entries check_mutual_match(a, b) is true exactly when
\* (i) not both intents are non-open and different, (ii) each side's gender
\* filter is Any or the other's gender, and (iii) each side's language filter
\* is Any or a member of the other's language set.
C7_Rules ==
    (/\ probe.kind = "match_out"
     /\ WellFormed(probe.user1) /\ WellFormed(probe.user2))
    => (probe.match12 <=>
           /\ ~(/\ DeclaresNonOpen(probe.user1.intent)
                /\ DeclaresNonOpen(probe.user2.intent)
                /\ probe.user1.intent # probe.user2.intent)
           /\ Accepts(probe.user1, probe.user2)
           /\ Accepts(probe.user2, probe.user1))

\* A well-formed pair with equal intents and satisfied gender filters that is
\* rejected by a language filter alone.
C7_Witness ==
    /\ probe.kind = "match_out"
    /\ WellFormed(probe.user1) /\ WellFormed(probe.user2)
    /\ probe.user1.intent = "Flirting" /\ probe.user2.intent = "Flirting"
    /\ probe.user1.search_prefs = json_dumps_prefs("Absent", "Spanish")
    /\ probe.user2.languages = json_dumps_langs({"English"})
    /\ Accepts(probe.user2, probe.user1)
    /\ ~probe.match12

\* What json.loads or a key lookup fails on.
Malformed(user) ==
    \/ ~has_key(user, "user_id")
    \/ user.search_prefs.t \in {"bad", "nonobj"}
    \/ user.languages.t = "bad"

InPairs(pairs, user_id) ==
    \E i \in 1..Len(pairs) : pairs[i][1] = user_id \/ pairs[i][2] = user_id

-----------------------------------------------------------------------------
(* The relay map (lines 216-237).                                          *)

\* map_message (lines 216-223): INSERT ... ON CONFLICT (forwarded_user_id,
\* forwarded_msg_id) DO NOTHING, the primary key of the table (line 151).
map_message(map, chat_id, original_user_id, original_msg_id, forwarded_user_id, forwarded_msg_id) ==
    IF \E row \in map : /\ row.forwarded_user_id = forwarded_user_id
                        /\ row.forwarded_msg_id = forwarded_msg_id
    THEN map
    ELSE map \cup {[chat_id |-> chat_id,
                    original_user_id |-> original_user_id,
                    original_msg_id |-> original_msg_id,
                    forwarded_user_id |-> forwarded_user_id,
                    forwarded_msg_id |-> forwarded_msg_id]}

map_first(map, chat_id, user_id, msg_id, partner_id, sent_id) ==
    map_message(map, chat_id, user_id, msg_id, partner_id, sent_id)

\* Lines 1219-1220 (and 1131-1132): the two rows of one relayed message.
map_both(map, chat_id, user_id, msg_id, partner_id, sent_id) ==
    map_message(map_message(map, chat_id, user_id, msg_id, partner_id, sent_id),
                chat_id, partner_id, sent_id, user_id, msg_id)

\* get_mapped_message_id (lines 225-232): SELECT original_msg_id ... ; NoMsg
\* is None, when no row matches.
get_mapped_message_id(chat_id, user_id_replying, replied_to_msg_id) ==
    LET rows == {row \in message_map :
                    /\ row.chat_id = chat_id
                    /\ row.forwarded_user_id = user_id_replying
                    /\ row.forwarded_msg_id = replied_to_msg_id}
    IN IF rows = {} THEN NoMsg ELSE (CHOOSE row \in rows : TRUE).original_msg_id

-----------------------------------------------------------------------------
(* end_chat alone: one call, for a user drawn with its session, while      *)
(* nothing else runs. Users 1 and 2 are in chat 1 and have relayed some    *)
(* messages; the caller is one of them, or user 3, who is idle, waiting or *)
(* hosting. probe keeps the store as it was when the call was made.        *)

\* The relay maps of chat 1 after none, one or two messages of user 1.
RelayedMaps ==
    {{}, map_both({}, 1, 1, 2, 2, 2),
     map_both(map_both({}, 1, 1, 2, 2, 2), 1, 1, 3, 2, 3)}

EndInit ==
    /\ users = Cast
    /\ chat_history = OpenChat12
    /\ invites = <<>>
    /\ match_lock = Unlocked
    /\ tasks = <<>>
    /\ jobs = [c \in Clients |-> 0]
    /\ menus = [c \in Clients |-> {}]
    /\ ops = 0
    /\ picked = [c \in Clients |-> 0]
    /\ connections = <<>>
    /\ timers = {}
    /\ ended = {}
    /\ media_to_forward = [c \in Clients |-> NoMsg]
    /\ message_map \in RelayedMaps
    /\ msg_seq = [c \in Clients |-> IF message_map = {} THEN Pinned12[c]
                                    ELSE IF c = 3 THEN NoMsg ELSE 3]
    /\ \E pins \in [{1, 2} -> {NoMsg, 1}] : \E state3 \in {"idle", "waiting", "hosting"} :
        sessions = [InChat12 EXCEPT ![1].pinned_message_id = pins[1],
                                    ![2].pinned_message_id = pins[2],
                                    ![3].state = state3]
    /\ \E c \in Clients :
        /\ handlers = [p \in Procs |->
                          IF p = Upd(c) THEN [Idle EXCEPT !.pc = "ec_read", !.uid = c]
                          ELSE Idle]
        /\ probe = [kind |-> "end_chat", user_id |-> c, user_data |-> get_user_data(c),
                    sessions |-> sessions, chat_history |-> chat_history,
                    message_map |-> message_map, timers |-> timers]

EndNext ==
    \/ \E p \in Procs : EndChatRead(p)
    \/ \E p \in Procs : EndChatStamp(p)
    \/ \E p \in Procs : EndChatClear(p)
    \/ \E p \in Procs : EndChatWrite1(p)
    \/ \E p \in Procs : EndChatWrite2(p)

SpecEnd == EndInit /\ [][EndNext]_vars

\* The call of SpecEnd has returned.
EndReturned == probe.kind = "end_chat" /\ \A p \in Procs : handlers[p] = Idle

\* C11: end_chat for a user whose state is not in_chat is a no-op: it
\* returns no partner, and no session, no chat_history row, no relay-map row
\* and no scheduled job differs from what it was when the call was made.
C11_NoOpWhenNotInChat ==
    (probe.kind = "end_chat" /\ probe.user_data.state # "in_chat")
    => /\ sessions = probe.sessions
       /\ chat_history = probe.chat_history
       /\ message_map = probe.message_map
       /\ timers = probe.timers
       /\ EndReturned =>
            ended = {[user_id |-> probe.user_id, partner_id |-> NoOne,
                      last_chat_id |-> NoChat]}

\* User 3, waiting, called end_chat while 1 and 2 chat, and the call returned.
C11_Witness ==
    /\ EndReturned
    /\ probe.user_id = 3
    /\ probe.user_data.state = "waiting"
    /\ ended # {}
    /\ sessions[1].state = "in_chat"

\* C12: end_chat for a user who is in_chat, run to its end with nothing
\* else running: the chat has its end time, the user and the partner are
\* idle with partner_id, last_chat_id and pinned_message_id cleared, and the
\* partner's id is what the call returned.
C12_EndResetsBoth ==
    (EndReturned /\ probe.user_data.state = "in_chat")
    => LET user_id == probe.user_id
           partner_id == probe.user_data.partner_id
           last_chat_id == probe.user_data.last_chat_id
       IN /\ chat_history[last_chat_id].end_time # NULL
          /\ \A c \in {user_id, partner_id} :
                /\ sessions[c].state = "idle"
                /\ sessions[c].partner_id = NoOne
                /\ sessions[c].last_chat_id = NoChat
                /\ sessions[c].pinned_message_id = NoMsg
          /\ ended = {[user_id |-> user_id, partner_id |-> partner_id,
                       last_chat_id |-> last_chat_id]}

\* User 2 ended chat 1, in which both notices were pinned and two messages
\* had been relayed.
C12_Witness ==
    /\ EndReturned
    /\ probe.user_id = 2
    /\ probe.sessions[1].pinned_message_id # NoMsg
    /\ probe.sessions[2].pinned_message_id # NoMsg
    /\ Cardinality(probe.message_map) = 4
    /\ ended = {[user_id |-> 2, partner_id |-> 1, last_chat_id |-> 1]}

-----------------------------------------------------------------------------
(* The relay: message_handler on a chat message (lines 1196-1224) and      *)
(* media_timer_callback (lines 1103-1136). probe is the record of what was *)
(* delivered (relayed) and of the deliveries that failed (failed).         *)

\* Lines 1169-1215: a message of c that is not a chat control arrives, as
\* message msg_seq[c] + 1 of c's chat. It may be media, and may be a
\* reply to an earlier message of that chat.
RelayMessage(c) ==
    /\ CanDispatch(c)
    /\ ops' = ops + 1
    /\ msg_seq' = [msg_seq EXCEPT ![c] = @ + 1]
    /\ \E is_media \in BOOLEAN : \E replied_to \in {NoMsg} \cup (1..msg_seq[c]) :
        LET user_data == get_user_data(c)
            relay == [NoRelay EXCEPT !.message_id = msg_seq[c] + 1,
                                     !.replied_to = replied_to]
            h == [Idle EXCEPT !.uid = c, !.relay = relay,
                              !.m = [user1_id |-> c, user2_id |-> user_data.partner_id,
                                     chat_id |-> user_data.last_chat_id]]
        IN  IF user_data.state # "in_chat"
            THEN Return(Upd(c)) /\ UNCHANGED media_to_forward
            ELSE IF is_media /\ is_premium(c)
            THEN /\ media_to_forward' = [media_to_forward EXCEPT ![c] = relay.message_id]
                 /\ Return(Upd(c))
            ELSE /\ Goto(Upd(c), [h EXCEPT !.pc = IF replied_to # NoMsg THEN "rl_lookup"
                                                  ELSE "rl_copy"])
                 /\ UNCHANGED media_to_forward
    /\ UNCHANGED <<probe, users, sessions, chat_history, invites, match_lock, tasks, jobs,
                   menus, picked, message_map, connections, timers, ended>>

\* Line 1215: reply_to_msg_id = await get_mapped_message_id(...).
RelayLookup(p) ==
    /\ At(p, "rl_lookup")
    /\ LET h == handlers[p] IN
       Goto(p, [h EXCEPT !.pc = "rl_copy",
                         !.relay.reply_to_msg_id =
                             get_mapped_message_id(h.m.chat_id, h.uid, h.relay.replied_to)])
    /\ UNCHANGED <<probe, users, sessions, chat_history, invites, match_lock, tasks, jobs,
                   menus, ops, picked, sideVars>>

\* What follows a delivery that failed: line 1224 calls end_chat(user_id);
\* media_timer_callback (lines 1134-1136) reports it and returns.
delivery_failed(h) ==
    IF h.action = "media" THEN Idle
    ELSE [Idle EXCEPT !.pc = "ec_read", !.uid = h.uid]

\* Lines 1218 and 1123-1128: copy_message to the partner. Telegram delivers
\* the copy, as the next message of the partner's chat, or raises.
RelayCopy(p) ==
    /\ At(p, "rl_copy")
    /\ LET h == handlers[p] IN
       \E delivered \in BOOLEAN :
          IF delivered /\ h.m.user2_id # NoOne
          THEN /\ msg_seq' = [msg_seq EXCEPT ![h.m.user2_id] = @ + 1]
               /\ Goto(p, [h EXCEPT !.pc = "rl_map1",
                                    !.relay.sent_message = msg_seq[h.m.user2_id] + 1])
               /\ UNCHANGED probe
          ELSE /\ probe' = [probe EXCEPT !.failed = @ \cup
                               {[user_id |-> h.uid, partner_id |-> h.m.user2_id,
                                 action |-> h.action]}]
               /\ Goto(p, delivery_failed(h))
               /\ UNCHANGED msg_seq
    /\ UNCHANGED <<users, sessions, chat_history, invites, match_lock, tasks, jobs, menus,
                   ops, picked, message_map, connections, timers, ended, media_to_forward>>

\* Lines 1219 and 1131: the first map_message.
RelayMap1(p) ==
    /\ At(p, "rl_map1")
    /\ LET h == handlers[p] IN
       /\ message_map' = map_message(message_map, h.m.chat_id, h.uid, h.relay.message_id,
                                     h.m.user2_id, h.relay.sent_message)
       /\ Goto(p, [h EXCEPT !.pc = "rl_map2"])
    /\ UNCHANGED <<probe, users, sessions, chat_history, invites, match_lock, tasks, jobs,
                   menus, ops, picked, connections, timers, ended, msg_seq,
                   media_to_forward>>

\* Lines 1220 and 1132: the second map_message; the handler returns.
RelayMap2(p) ==
    /\ At(p, "rl_map2")
    /\ LET h == handlers[p] IN
       /\ message_map' = map_both(message_map, h.m.chat_id, h.uid, h.relay.message_id,
                                  h.m.user2_id, h.relay.sent_message)
       /\ probe' = [probe EXCEPT !.relayed = @ \cup
                       {[chat_id |-> h.m.chat_id, user_id |-> h.uid,
                         msg_id |-> h.relay.message_id, partner_id |-> h.m.user2_id,
                         sent_id |-> h.relay.sent_message]}]
       /\ Return(p)
    /\ UNCHANGED <<users, sessions, chat_history, invites, match_lock, tasks, jobs, menus,
                   ops, picked, connections, timers, ended, msg_seq, media_to_forward>>

\* Lines 1103-1119 of media_timer_callback: the read, the check that the
\* action is still valid, and the pop of the message held back.
MediaTimer(c) ==
    /\ CanDispatch(c)
    /\ ops' = ops + 1
    /\ LET user_data == get_user_data(c) IN
       IF user_data.state # "in_chat" \/ media_to_forward[c] = NoMsg
       THEN Return(Upd(c)) /\ UNCHANGED media_to_forward
       ELSE /\ media_to_forward' = [media_to_forward EXCEPT ![c] = NoMsg]
            /\ Goto(Upd(c), [Idle EXCEPT
                   !.pc = "rl_copy", !.uid = c, !.action = "media",
                   !.relay.message_id = media_to_forward[c],
                   !.m = [user1_id |-> c, user2_id |-> user_data.partner_id,
                          chat_id |-> user_data.last_chat_id]])
    /\ UNCHANGED <<probe, users, sessions, chat_history, invites, match_lock, tasks, jobs,
                   menus, picked, message_map, connections, timers, ended, msg_seq>>

\* Users 1 and 2 chat; or a pass has just paired the users 2 and 3, who
\* were waiting, and spawned their match_users.
RelayInit ==
    /\ probe = [kind |-> "relay", relayed |-> {}, failed |-> {}]
    /\ users = Cast
    /\ invites = <<>>
    /\ match_lock = Unlocked
    /\ handlers = [p \in Procs |-> Idle]
    /\ jobs = [c \in Clients |-> 0]
    /\ menus = [c \in Clients |-> {}]
    /\ ops = 0
    /\ NoSide
    /\ \/ /\ sessions = InChat12
          /\ chat_history = OpenChat12
          /\ msg_seq = Pinned12
          /\ tasks = <<>>
          /\ picked = [c \in Clients |-> 0]
       \/ /\ sessions = [c \in Clients |->
                            IF c = 1 THEN NewSession
                            ELSE [NewSession EXCEPT !.state = "waiting"]]
          /\ chat_history = <<>>
          /\ msg_seq = [c \in Clients |-> NoMsg]
          /\ tasks = Spawned(<<<<2, 3>>>>)
          /\ picked = Bump([c \in Clients |-> 0], <<2, 3>>)

RelayNext ==
    \/ \E c \in Clients : RelayMessage(c)
    \/ \E c \in Clients : MediaTimer(c)
    \/ \E p \in Procs : RelayLookup(p)
    \/ \E p \in Procs : RelayCopy(p)
    \/ \E p \in Procs : RelayMap1(p)
    \/ \E p \in Procs : RelayMap2(p)
    \/ \E p \in Procs : EndChatRead(p)
    \/ \E p \in Procs : EndChatStamp(p)
    \/ \E p \in Procs : EndChatClear(p)
    \/ \E p \in Procs : EndChatWrite1(p)
    \/ \E p \in Procs : EndChatWrite2(p)
    \/ TaskStep

SpecRelay == RelayInit /\ [][RelayNext]_vars

\* The chats for which a call of end_chat has returned.
EndedChats == {e.last_chat_id : e \in ended} \ {NoChat}

\* The two users of the relayed message r are in the chat of r, which no
\* call of end_chat has purged or is past purging.
Together(r) ==
    /\ r.chat_id \notin EndedChats
    /\ \A p \in Procs : handlers[p].pc \in {"ec_write1", "ec_write2"}
                        => handlers[p].m.chat_id # r.chat_id
    /\ sessions[r.user_id].state = "in_chat"
    /\ sessions[r.user_id].last_chat_id = r.chat_id
    /\ sessions[r.partner_id].state = "in_chat"
    /\ sessions[r.partner_id].last_chat_id = r.chat_id

\* C13: relay round trip: when the message msg_id of user_id was delivered
\* to partner_id as sent_id, then, while the two are in that chat, a reply of
\* the partner to sent_id resolves to msg_id and a reply of the user to the
\* own msg_id resolves to sent_id: in the map, and in every reply being relayed.
C13_RoundTrip ==
    \A r \in probe.relayed :
        /\ Together(r)
           => /\ get_mapped_message_id(r.chat_id, r.partner_id, r.sent_id) = r.msg_id
              /\ get_mapped_message_id(r.chat_id, r.user_id, r.msg_id) = r.sent_id
        /\ \A p \in Procs :
            LET h == handlers[p] IN
            (/\ h.pc \in {"rl_copy", "rl_map1", "rl_map2"}
             /\ h.m.chat_id = r.chat_id
             /\ r.chat_id \notin EndedChats)
            => /\ (h.uid = r.partner_id /\ h.relay.replied_to = r.sent_id)
                  => h.relay.reply_to_msg_id = r.msg_id
               /\ (h.uid = r.user_id /\ h.relay.replied_to = r.msg_id)
                  => h.relay.reply_to_msg_id = r.sent_id

\* Message 2 of user 1 was delivered to user 2 as message 2 of user 2's
\* chat; user 2 replies to it with message 3, which is about to be copied to
\* user 1 as a reply to message 2.
C13_Witness ==
    /\ [chat_id |-> 1, user_id |-> 1, msg_id |-> 2, partner_id |-> 2, sent_id |-> 2]
          \in probe.relayed
    /\ handlers[Upd(2)].pc = "rl_copy"
    /\ handlers[Upd(2)].relay.replied_to = 2
    /\ handlers[Upd(2)].relay.reply_to_msg_id = 2
    /\ handlers[Upd(2)].relay.message_id = 3

\* C14: the relay map is purged when a chat ends: once a call of end_chat
\* for a chat has returned, message_map holds no row with that chat's id.
C14_PurgedAtEnd ==
    \A row \in message_map : row.chat_id \notin EndedChats

\* C15: a delivery that failed ends the sender's chat: when the handler of
\* a failed delivery, of a message or of media, has returned, the sender and
\* the partner it had are idle and have no partner.
C15_FailureEndsChat ==
    \A f \in probe.failed :
        handlers[Upd(f.user_id)] = Idle
        => \A c \in {f.user_id, f.partner_id} \ {NoOne} :
              sessions[c].state = "idle" /\ sessions[c].partner_id = NoOne

-----------------------------------------------------------------------------
(* Favorites: favorite_callback (lines 1229-1276), consent_callback (lines  *)
(* 1280-1302) and create_connection (lines 1306-1335). probe is the record *)
(* of the consent prompts sent (prompts) and accepted (accepted).          *)

MaxPresses == 3                     \* favorite and consent buttons pressed in one behaviour

CanPress(c) == (\A d \in Clients : At(Upd(d), "idle")) /\ ops < MaxPresses

\* The other participant of the chat_history row.
partner_of(history, initiator_id) ==
    IF history.user1_id = initiator_id THEN history.user2_id ELSE history.user1_id

\* Lines 1247-1251: UPDATE chat_history SET <column> = 1 ... RETURNING *.
wants_favorite(history, initiator_id) ==
    IF history.user1_id = initiator_id
    THEN [history EXCEPT !.user1_wants_favorite = 1]
    ELSE [history EXCEPT !.user2_wants_favorite = 1]

\* create_connection as it returns at line 1310, nothing inserted.
create_connection_returns(rows, user1_id, user2_id) == rows

\* Lines 1323-1330: INSERT INTO connections (user1_id, user2_id, ...)
\* ON CONFLICT (user1_id, user2_id) DO NOTHING; UNIQUE(user1_id, user2_id) is
\* the constraint of the table (line 142).
create_connection(rows, user1_id, user2_id) ==
    IF \E i \in 1..Len(rows) : rows[i].user1_id = user1_id /\ rows[i].user2_id = user2_id
    THEN rows
    ELSE Append(rows, [user1_id |-> user1_id, user2_id |-> user2_id])

mutual_one_flag(updated_history) ==
    updated_history.user1_wants_favorite = 1 \/ updated_history.user2_wants_favorite = 1

\* Line 1253: both flags of the row the UPDATE returned are 1.
mutual(updated_history) ==
    updated_history.user1_wants_favorite = 1 /\ updated_history.user2_wants_favorite = 1

\* Lines 1229-1258: c presses "Add to Favorites" of a chat it took part in.
\* The SELECT and the UPDATE are one transaction.
FavoriteFlag(c) ==
    /\ CanPress(c)
    /\ ops' = ops + 1
    /\ \E chat_id \in 1..Len(chat_history) :
        LET history == chat_history[chat_id]
            updated_history == wants_favorite(history, c)
        IN  /\ c \in {history.user1_id, history.user2_id}
            /\ history.committed
            /\ chat_history' = [chat_history EXCEPT ![chat_id] = updated_history]
            /\ Goto(Upd(c), [Idle EXCEPT
                   !.pc = IF mutual(updated_history) THEN "cc_insert" ELSE "fv_prompt",
                   !.uid = c,
                   !.m = [user1_id |-> c, user2_id |-> partner_of(history, c),
                          chat_id |-> chat_id]])
    /\ UNCHANGED <<probe, users, sessions, invites, match_lock, tasks, jobs, menus, picked,
                   sideVars>>

\* Lines 1259-1276: the consent prompt, sent to the partner when only the
\* initiator is premium.
FavoritePrompt(p) ==
    /\ At(p, "fv_prompt")
    /\ LET h == handlers[p] IN
       probe' = IF is_premium(h.m.user1_id) /\ ~is_premium(h.m.user2_id)
                THEN [probe EXCEPT !.prompts = @ \cup
                         {[chat_id |-> h.m.chat_id, initiator_id |-> h.m.user1_id,
                           accepter_id |-> h.m.user2_id]}]
                ELSE probe
    /\ Return(p)
    /\ UNCHANGED <<users, sessions, chat_history, invites, match_lock, tasks, jobs, menus,
                   ops, picked, sideVars>>

\* Lines 1280-1302: c answers a consent prompt it was sent.
Consent(c) ==
    /\ CanPress(c)
    /\ ops' = ops + 1
    /\ \E prompt \in probe.prompts : \E consent_action \in {"yes", "no"} :
        /\ prompt.accepter_id = c
        /\ IF consent_action = "yes"
           THEN /\ probe' = [probe EXCEPT !.accepted = @ \cup {prompt}]
                /\ Goto(Upd(c), [Idle EXCEPT !.pc = "cc_insert", !.uid = c,
                                   !.m = [user1_id |-> prompt.initiator_id,
                                          user2_id |-> c, chat_id |-> prompt.chat_id]])
           ELSE /\ Return(Upd(c))
                /\ UNCHANGED probe
    /\ UNCHANGED <<users, sessions, chat_history, invites, match_lock, tasks, jobs, menus,
                   picked, sideVars>>

\* create_connection (lines 1306-1335), called with (initiator, partner) at
\* line 1256 and with (initiator, accepter) at line 1299.
CreateConnection(p) ==
    /\ At(p, "cc_insert")
    /\ connections' = create_connection(connections, handlers[p].m.user1_id,
                                        handlers[p].m.user2_id)
    /\ Return(p)
    /\ UNCHANGED <<probe, users, sessions, chat_history, invites, match_lock, tasks, jobs,
                   menus, ops, picked, message_map, timers, ended, msg_seq,
                   media_to_forward>>

\* Chat 1, of users 1 (premium) and 2, has ended; users 2 and 3 are in chat 2.
FavInit ==
    /\ probe = [kind |-> "favorite", prompts |-> {}, accepted |-> {}]
    /\ users = Cast
    /\ sessions = (1 :> NewSession) @@
                  (2 :> [in_chat_with(NewSession, 3, 2) EXCEPT !.pinned_message_id = 2]) @@
                  (3 :> [in_chat_with(NewSession, 2, 2) EXCEPT !.pinned_message_id = 1])
    /\ chat_history = <<[OpenChat12[1] EXCEPT !.end_time = "stamped"],
                        [OpenChat12[1] EXCEPT !.user1_id = 2, !.user2_id = 3]>>
    /\ invites = <<>>
    /\ match_lock = Unlocked
    /\ handlers = [p \in Procs |-> Idle]
    /\ tasks = <<>>
    /\ jobs = [c \in Clients |-> 0]
    /\ menus = [c \in Clients |-> {}]
    /\ ops = 0
    /\ picked = [c \in Clients |-> 0]
    /\ NoSide
    /\ msg_seq = (1 :> 1) @@ (2 :> 2) @@ (3 :> 1)

FavNext ==
    \/ \E c \in Clients : FavoriteFlag(c)
    \/ \E c \in Clients : Consent(c)
    \/ \E p \in Procs : FavoritePrompt(p)
    \/ \E p \in Procs : CreateConnection(p)

SpecFav == FavInit /\ [][FavNext]_vars

\* The connections between a and b, in either order.
ConnectionsOf(a, b) ==
    {i \in 1..Len(connections) : {connections[i].user1_id, connections[i].user2_id} = {a, b}}

\* user_id has flagged the chat, or accepted a consent prompt for it.
OptedIn(chat_id, user_id) ==
    \/ /\ chat_history[chat_id].user1_id = user_id
       /\ chat_history[chat_id].user1_wants_favorite = 1
    \/ /\ chat_history[chat_id].user2_id = user_id
       /\ chat_history[chat_id].user2_wants_favorite = 1
    \/ \E prompt \in probe.accepted :
          prompt.chat_id = chat_id /\ prompt.accepter_id = user_id

\* C16: flagging from one side never creates a connection: for every chat,
\* as long as one of its participants has neither flagged it nor accepted a
\* consent prompt for it, there is no connection between the two.
C16_OneSideNeverConnects ==
    \A chat_id \in 1..Len(chat_history) :
        LET a == chat_history[chat_id].user1_id
            b == chat_history[chat_id].user2_id
        IN (~OptedIn(chat_id, a) \/ ~OptedIn(chat_id, b)) => ConnectionsOf(a, b) = {}

\* User 2 has pressed the favorite button of chat 2 three times, user 3
\* never: no connection.
C16_Witness ==
    /\ ops = MaxPresses
    /\ chat_history[2].user1_wants_favorite = 1
    /\ chat_history[2].user2_wants_favorite = 0
    /\ chat_history[1].user2_wants_favorite = 0
    /\ \A p \in Procs : handlers[p] = Idle
    /\ connections = <<>>

\* C17: connections are unique per unordered pair: when both participants
\* of a chat have flagged it and every handler has returned, exactly one
\* connection exists between the two.
C17_OneConnection ==
    \A chat_id \in 1..Len(chat_history) :
        (mutual(chat_history[chat_id]) /\ \A p \in Procs : handlers[p] = Idle)
        => Cardinality(ConnectionsOf(chat_history[chat_id].user1_id,
                                     chat_history[chat_id].user2_id)) = 1

-----------------------------------------------------------------------------
(* Redemptions of one invite: user 1 has created the link of token 1 and   *)
(* is hosting. Any user opens the link; the host may cancel the invite or  *)
(* leave the hosting state by "Cancel Search"; time passes.                *)

InviteInit ==
    /\ probe = [kind |-> "invite"]
    /\ users = Cast
    /\ sessions = [c \in Clients |->
                      IF c = 1 THEN [NewSession EXCEPT !.state = "hosting"] ELSE NewSession]
    /\ chat_history = <<>>
    /\ invites = <<[host_user_id |-> 1, present |-> TRUE, age |-> 0, redeemed |-> <<>>]>>
    /\ match_lock = Unlocked
    /\ handlers = [p \in Procs |-> Idle]
    /\ tasks = <<>>
    /\ jobs = [c \in Clients |-> 0]
    /\ menus = [c \in Clients |-> {}]
    /\ ops = 0
    /\ picked = [c \in Clients |-> 0]
    /\ NoSide
    /\ msg_seq = [c \in Clients |-> NoMsg]

InviteNext ==
    \/ \E c \in Clients : InviteJoin(c)
    \/ \E c \in Clients : CancelInvite(c)
    \/ \E c \in Clients : CancelSearch(c)
    \/ \E p \in Procs : InviteJoinHost(p)
    \/ \E p \in Procs : InviteJoinDelete(p)
    \/ \E p \in Procs : InlineMatchStep(p)
    \/ \E p \in Procs : InviteIdle(p)
    \/ InviteAges

SpecInvite == InviteInit /\ [][InviteNext]_vars

\* The redemptions of the token that went on to match_users (line 291).
Accepted(token) ==
    {i \in 1..Len(invites[token].redeemed) : invites[token].redeemed[i].outcome = "accepted"}

\* C18: an invite token is single-use: of all the redemptions of one
\* token, by any guests, at most one starts a session with the host.
C18_SingleUse ==
    \A token \in Tokens : Cardinality(Accepted(token)) <= 1

\* Users 2 and 3 have both opened the link of token 1; user 2 is in the
\* chat with the host, and nothing is left running.
C18_Witness ==
    /\ Len(invites[1].redeemed) = 2
    /\ invites[1].redeemed[1].guest_id = 2
    /\ invites[1].redeemed[2].guest_id = 3
    /\ Accepted(1) = {1}
    /\ sessions[1].partner_id = 2
    /\ sessions[3].state = "idle"
    /\ \A p \in Procs : handlers[p] = Idle

\* C19: after a redemption of a token was accepted, a later redemption of
\* the same token ends with "invalid or has already been used" at once,
\* starts no session and changes no session and no chat.
C19_UsedIsInvalid ==
    [][\A token \in Tokens :
          (/\ Accepted(token) # {}
           /\ Len(invites'[token].redeemed) > Len(invites[token].redeemed))
          => /\ invites'[token].redeemed[Len(invites'[token].redeemed)].outcome = "invalid"
             /\ sessions' = sessions
             /\ chat_history' = chat_history
             /\ handlers' = handlers]_vars

\* User 3 opened the link that user 2 had used: the second redemption is
\* recorded as invalid.
C19_Witness ==
    /\ Len(invites[1].redeemed) = 2
    /\ invites[1].redeemed[1].outcome = "accepted"
    /\ invites[1].redeemed[1].guest_id = 2
    /\ invites[1].redeemed[2].outcome = "invalid"
    /\ invites[1].redeemed[2].guest_id = 3

\* A session is started by a redemption only when the token was found, not
\* older than INVITE_TTL, of another user, whose state was hosting when read.
StartsOnlyWhenValid ==
    /\ \A token \in Tokens : \A i \in Accepted(token) :
        LET r == invites[token].redeemed[i] IN
        /\ r.found
        /\ r.age <= INVITE_TTL
        /\ r.guest_id # invites[token].host_user_id
        /\ r.host_state = "hosting"
    /\ \A p \in Procs :
        handlers[p].pc \in {"mu_insert", "mu_write1", "mu_write2", "mu_commit",
                            "mu_pin1", "mu_pin2"}
        => \E i \in Accepted(handlers[p].token) :
              invites[handlers[p].token].redeemed[i].guest_id = handlers[p].m.user2_id

\* A step of handle_invite_join before its call of match_users.
RedeemStep(p) ==
    /\ handlers'[p] # handlers[p]
    /\ \/ handlers[p].pc \in {"ij_host", "ij_delete"}
       \/ handlers'[p].pc \in {"ij_host", "ij_delete"}
       \/ \E token \in Tokens :
             Len(invites'[token].redeemed) > Len(invites[token].redeemed)

\* C20: a redemption starts a session only when the token exists, is not
\* older than 5 minutes, the guest is not the host and the host's state was
\* hosting when it was checked; the steps of a redemption before the
\* session start change no session and no chat.
C20_RedeemOnlyValid ==
    [][/\ StartsOnlyWhenValid'
       /\ \A p \in Procs :
            RedeemStep(p) => (sessions' = sessions /\ chat_history' = chat_history)]_vars

\* User 2 opened the link when it was exactly INVITE_TTL old and is in the
\* chat with the host; user 3 opened it after that.
C20_Witness ==
    /\ Len(invites[1].redeemed) = 2
    /\ invites[1].redeemed[1].age = INVITE_TTL
    /\ invites[1].redeemed[1].outcome = "accepted"
    /\ sessions[2].state = "in_chat" /\ sessions[2].partner_id = 1
    /\ sessions[1].state = "in_chat" /\ sessions[1].partner_id = 2
    /\ invites[1].redeemed[2].guest_id = 3

-----------------------------------------------------------------------------
(* The exit of a chat by "Next" or "Stop", under Spec.                     *)

\* message_handler creates the task of handle_initiator_action (line 1191).
SpawnsAction(c) == handlers[Act(c)].pc = "idle" /\ handlers'[Act(c)].pc = "ia_read"

\* C21: when a user in_chat exits by "Next" or "Stop", the partner's session
\* has been written waiting and a matching pass has run for the partner
\* before the initiator's action is started; the action's own steps, late
\* or never taken, play no part in it.
C21_PartnerFirst ==
    [][\A c \in Clients :
          /\ SpawnsAction(c) =>
                LET h == handlers[Upd(c)] IN
                \/ h.pc = "pass_scan" /\ h.uid # c /\ h.after = "spawn_action"
                \/ h.pc = "ec_read" /\ not_in_chat(get_user_data(c))
                \/ h.pc = "ec_write1" /\ h.m.user2_id = NoOne
          /\ (/\ handlers[Upd(c)].after = "spawn_action"
              /\ handlers[Upd(c)].pc # "pass_scan"
              /\ handlers'[Upd(c)].pc = "pass_scan")
             => /\ handlers[Upd(c)].pc = "pass_lock"
                /\ handlers'[Upd(c)].uid = handlers[Upd(c)].uid
          /\ (/\ handlers[Upd(c)].after = "spawn_action"
              /\ handlers[Upd(c)].pc # "pass_lock"
              /\ handlers'[Upd(c)].pc = "pass_lock")
             => sessions'[handlers'[Upd(c)].uid].state = "waiting"]_vars

\* User 1 left chat 1: user 2 is waiting and the action of user 1 has not
\* taken a step.
C21_Witness ==
    /\ At(Act(1), "ia_read")
    /\ At(Upd(1), "idle")
    /\ [user_id |-> 1, partner_id |-> 2, last_chat_id |-> 1] \in ended
    /\ sessions[2].state = "waiting"
    /\ sessions[1].state = "idle"

-----------------------------------------------------------------------------
(* The fallback job, under Spec.                                           *)

\* C22: a fallback job that fires when its user's state is not waiting is
\* dropped: no menu is built, nothing stored changes, no job is scheduled.
C22_StaleFallbackDropped ==
    [][\A c \in Clients :
          (jobs'[c] = jobs[c] - 1 /\ sessions[c].state # "waiting")
          => /\ menus' = menus
             /\ handlers' = handlers
             /\ sessions' = sessions
             /\ users' = users
             /\ chat_history' = chat_history
             /\ timers' = timers
             /\ \A d \in Clients : jobs'[d] <= jobs[d]]_vars

\* User 1 searched for (Male, English) and cancelled; the job scheduled when
\* the search began has fired since, and built no menu.
C22_Witness ==
    /\ ops = 2
    /\ sessions[1].state = "idle"
    /\ sessions[1].search_prefs = json_dumps_prefs("Male", "English")
    /\ jobs[1] = 0
    /\ menus[1] = {}
    /\ \A p \in Procs : handlers[p] = Idle

-----------------------------------------------------------------------------
(* unified_fallback_callback (lines 806-841) and the fallback jobs of a    *)
(* search. The profiles differ in the intents of users 1 and 3.            *)

\* Line 841: run_once(unified_fallback_check, 30, ..., name=f"fallback_{user_id}").
\* run_once adds a job; a job of the same name that is pending stays.
rearm(count, user_id) == [count EXCEPT ![user_id] = @ + 1]

\* c presses a button of the menu on the searching prompt; the answer of
\* each branch replaces the menu (lines 819, 825, 830, 836).
FallbackCallback(c) ==
    /\ CanDispatch(c)
    /\ sessions[c].state = "waiting"
    /\ ops' = ops + 1
    /\ menus' = [menus EXCEPT ![c] = {}]
    /\ \E option \in menus[c] :
        CASE option.type = "pref" ->
                /\ sessions' = [sessions EXCEPT ![c].search_prefs =
                                   json_dumps_prefs(option.gender, option.language)]
                /\ Goto(Upd(c), [Idle EXCEPT !.pc = "enq_read", !.uid = c])
                /\ UNCHANGED <<users, jobs>>
          [] option.type = "intent" ->
                /\ users' = [users EXCEPT ![c].intent = AnythingGoes]
                /\ Goto(Upd(c), [Idle EXCEPT !.pc = "enq_read", !.uid = c])
                /\ UNCHANGED <<sessions, jobs>>
          [] option.type = "random" ->
                /\ sessions' = [sessions EXCEPT ![c].search_prefs = EmptyObjText]
                /\ users' = [users EXCEPT ![c].intent = AnythingGoes]
                /\ Goto(Upd(c), [Idle EXCEPT !.pc = "enq_read", !.uid = c])
                /\ UNCHANGED jobs
          [] option.type = "keep" ->
                /\ jobs' = rearm(jobs, c)
                /\ UNCHANGED <<users, sessions, handlers>>
    /\ UNCHANGED <<probe, sideVars, chat_history, invites, match_lock, tasks, picked>>

FallbackCasts ==
    {[Cast EXCEPT ![1].intent = intent1, ![3].intent = intent3] :
        intent1 \in {"CasualTalk", AnythingGoes}, intent3 \in Intents}

\* Nobody searching; or user 1 waiting for (Male, English) since a pass that
\* found nobody, the fallback job of that search pending.
FallbackInit ==
    /\ probe = [kind |-> "fallback"]
    /\ users \in FallbackCasts
    /\ \/ /\ sessions = [c \in Clients |-> NewSession]
          /\ jobs = [c \in Clients |-> 0]
       \/ /\ sessions = [c \in Clients |->
                 IF c = 1
                 THEN [NewSession EXCEPT
                          !.state = "waiting",
                          !.search_prefs = json_dumps_prefs("Male", "English"),
                          !.original_search_prefs = json_dumps_prefs("Male", "English")]
                 ELSE NewSession]
          /\ jobs = [c \in Clients |-> IF c = 1 THEN 1 ELSE 0]
    /\ chat_history = <<>>
    /\ invites = <<>>
    /\ match_lock = Unlocked
    /\ handlers = [p \in Procs |-> Idle]
    /\ tasks = <<>>
    /\ menus = [c \in Clients |-> {}]
    /\ ops = 0
    /\ picked = [c \in Clients |-> 0]
    /\ NoSide
    /\ msg_seq = [c \in Clients |-> NoMsg]

FallbackNext ==
    \/ \E c \in Clients : FindStranger(c)
    \/ \E c \in Clients : CancelSearch(c)
    \/ \E c \in Clients : FallbackCallback(c)
    \/ \E c \in Clients : FallbackFire(c)
    \/ \E p \in Procs : EnqRead(p)
    \/ \E p \in Procs : EnqWrite(p)
    \/ \E p \in Procs : PassLock(p)
    \/ \E p \in Procs : PassScan(p)
    \/ \E p \in Procs : FallbackMenu(p)
    \/ TaskStep

SpecFallback == FallbackInit /\ [][FallbackNext]_vars

\* C23: at most one fallback job is pending for a user, so a search begun
\* after a cancelled one gets no menu from the job of the cancelled search.
C23_OneFallbackPending ==
    \A c \in Clients : jobs[c] <= 1

\* The gender and the language filter of the search preferences stored for
\* user_id; "Any" is the default of both.
GenderFilterOf(user_id) ==
    prefs_get(json_loads(OrText(sessions[user_id].search_prefs, EmptyObjText)), "gender")

LanguageFilterOf(user_id) ==
    prefs_get(json_loads(OrText(sessions[user_id].search_prefs, EmptyObjText)), "language")

\* Process p writes the session of its user waiting (line 735).
Enqueues(p) == handlers[p].pc = "enq_write" /\ handlers'[p].pc = "pass_lock"

BuildsMenu(p) == handlers[p].pc = "fb_pool" /\ handlers'[p].pc = "idle"

\* Two intents that do not keep their users apart: equal, or one is open.
CompatibleIntents(intent1, intent2) ==
    intent1 = intent2 \/ intent1 = AnythingGoes \/ intent2 = AnythingGoes

\* The users of the pool, other than user_id, whose intent goes with intent.
Candidates(user_id, intent) ==
    {d \in Clients \ {user_id} :
        sessions[d].state = "waiting" /\ CompatibleIntents(intent, users[d].intent)}

\* C25: the menu offers "that gender, any language" exactly when the user's
\* gender filter is set and the pool holds another user of that gender with
\* a compatible intent, and "that language, any gender" exactly when the
\* language filter is set and the pool holds another user who speaks it,
\* with a compatible intent.
C25_PartialMatchOptions ==
    [][\A p \in Procs :
          BuildsMenu(p) =>
             LET user_id == handlers[p].uid
                 prefs == json_loads(OrText(handlers[p].data.search_prefs, EmptyObjText))
                 gender_pref == prefs_get(prefs, "gender")
                 lang_pref == prefs_get(prefs, "language")
                 pool == Candidates(user_id, handlers[p].data.intent)
             IN /\ \A gender \in Genders :
                     Option("pref", gender, "Any") \in menus'[user_id]
                     <=> /\ gender_pref = gender
                         /\ \E d \in pool : users[d].gender = gender
                /\ \A language \in Languages :
                     Option("pref", "Any", language) \in menus'[user_id]
                     <=> /\ lang_pref = language
                         /\ \E d \in pool :
                               language \in json_loads(users[d].languages).value.items]_vars

\* c presses "Keep Waiting" on the menu (lines 835-841).
KeepsWaiting(c) ==
    /\ ops' = ops + 1
    /\ Option("keep", "", "") \in menus[c]
    /\ menus'[c] = {}
    /\ handlers' = handlers

\* C26: a menu built for a waiting user holds "Connect with Anyone" and
\* "Keep Waiting", and holds "Switch Your Intent" exactly when the intent of
\* the user is not the open one; "Keep Waiting" schedules the fallback job
\* again and changes no session, no preference and no profile.
C26_MenuAndKeep ==
    [][/\ \A p \in Procs :
            BuildsMenu(p) =>
               LET menu == menus'[handlers[p].uid] IN
               /\ Option("random", "", "") \in menu
               /\ Option("keep", "", "") \in menu
               /\ Option("intent", "", "") \in menu
                  <=> users[handlers[p].uid].intent # AnythingGoes
       /\ \A c \in Clients :
            KeepsWaiting(c) =>
               /\ jobs' = [jobs EXCEPT ![c] = @ + 1]
               /\ sessions' = sessions
               /\ users' = users
               /\ chat_history' = chat_history]_vars

-----------------------------------------------------------------------------
(* send_favorite_option_job (lines 929-966), the job named favorite_<id>.  *)
(* probe.offered is the record of the prompts the job has sent.            *)

\* Lines 945-948: the check that lets the prompt be sent.
still_in_chat(user1_data, user2_id, last_chat_id) ==
    /\ user1_data.state = "in_chat"
    /\ user1_data.partner_id = user2_id
    /\ user1_data.last_chat_id = last_chat_id

\* The job of a chat fires: the two reads, the check, and the prompt, sent to
\* user1 if premium, else to user2 if premium (lines 962-966).
FavoriteJob ==
    \E job \in timers :
        /\ job.name = "favorite"
        /\ timers' = timers \ {job}
        /\ LET user1_id == job.user_id
               user2_id == chat_history[job.chat_id].user2_id
               receiver == IF is_premium(user1_id) THEN {user1_id}
                           ELSE IF is_premium(user2_id) THEN {user2_id} ELSE {}
           IN probe' = IF still_in_chat(get_user_data(user1_id), user2_id, job.chat_id)
                       THEN [probe EXCEPT !.offered = @ \cup
                               {[chat_id |-> job.chat_id, user_id |-> r] : r \in receiver}]
                       ELSE probe
        /\ UNCHANGED <<users, sessions, chat_history, invites, match_lock, handlers, tasks,
                       jobs, menus, ops, picked, message_map, connections, ended, msg_seq,
                       media_to_forward>>

\* Users 1 and 2 are in chat 1; the favorite job of the chat is pending.
FavJobInit ==
    /\ probe = [kind |-> "favorite_job", offered |-> {}]
    /\ users = Cast
    /\ sessions = InChat12
    /\ chat_history = OpenChat12
    /\ msg_seq = Pinned12
    /\ invites = <<>>
    /\ match_lock = Unlocked
    /\ handlers = [p \in Procs |-> Idle]
    /\ tasks = <<>>
    /\ jobs = [c \in Clients |-> 0]
    /\ menus = [c \in Clients |-> {}]
    /\ ops = 0
    /\ picked = [c \in Clients |-> 0]
    /\ message_map = {}
    /\ connections = <<>>
    /\ timers = {[name |-> "favorite", user_id |-> 1, chat_id |-> 1]}
    /\ ended = {}
    /\ media_to_forward = [c \in Clients |-> NoMsg]

FavJobNext ==
    \/ \E c \in Clients : ExitChat(c)
    \/ \E p \in Procs : EndChatRead(p)
    \/ \E p \in Procs : EndChatStamp(p)
    \/ \E p \in Procs : EndChatClear(p)
    \/ \E p \in Procs : EndChatWrite1(p)
    \/ \E p \in Procs : EndChatWrite2(p)
    \/ \E p \in Procs : ExitPartnerRead(p)
    \/ \E p \in Procs : ExitPartnerRestore(p)
    \/ \E p \in Procs : ActionRead(p)
    \/ \E p \in Procs : ActionRestore(p)
    \/ \E p \in Procs : EnqRead(p)
    \/ \E p \in Procs : EnqWrite(p)
    \/ \E p \in Procs : PassLock(p)
    \/ \E p \in Procs : PassScan(p)
    \/ TaskStep
    \/ FavoriteJob

SpecFavJob == FavJobInit /\ [][FavJobNext]_vars

\* user_id is in_chat, in chat chat_id, with partner_id.
PairedIn(user_id, partner_id, chat_id) ==
    /\ sessions[user_id].state = "in_chat"
    /\ sessions[user_id].partner_id = partner_id
    /\ sessions[user_id].last_chat_id = chat_id

\* C27: the favorites prompt of a chat is sent only if, when the job fires,
\* both users of the chat are in_chat, each with the other as partner and
\* with that chat as active chat; otherwise the job sends nothing.
C27_PromptOnlyWhilePaired ==
    [][\A chat_id \in 1..Len(chat_history) :
          (\E prompt \in probe'.offered \ probe.offered : prompt.chat_id = chat_id)
          => LET history == chat_history[chat_id] IN
             /\ PairedIn(history.user1_id, history.user2_id, chat_id)
             /\ PairedIn(history.user2_id, history.user1_id, chat_id)]_vars

-----------------------------------------------------------------------------
(* Reconnect: reconnect_request_callback (lines 1403-1442),                *)
(* accept_reconnect_callback (lines 1453-1484) and                         *)
(* decline_reconnect_callback (lines 1487-1501). probe is the record of    *)
(* the requests on screen (prompts) and of the answers given.              *)

\* The users c has a connection with (my_connections_callback, lines 1356-1362).
Favorites(c) ==
    {connections[i].user2_id : i \in {j \in 1..Len(connections) : connections[j].user1_id = c}}
    \cup {connections[i].user1_id : i \in {j \in 1..Len(connections) : connections[j].user2_id = c}}

\* Lines 1413-1442: c asks a favorite to chat; a target that is not idle
\* gets the interrupt prompt, an idle one the standard prompt.
ReconnectRequest(c) ==
    /\ CanDispatch(c)
    /\ ops' = ops + 1
    /\ \E target_id \in Favorites(c) :
        probe' = [probe EXCEPT !.prompts = @ \cup
                     {[initiator_id |-> c, target_id |-> target_id,
                       is_interrupt |-> get_user_data(target_id).state # "idle"]}]
    /\ UNCHANGED <<users, sessions, chat_history, invites, match_lock, handlers, tasks,
                   jobs, menus, picked, sideVars>>

\* What the answer to a prompt found: the states of the two users and the
\* partner of the one who answers.
Answer(prompt, accepted) ==
    [initiator_id |-> prompt.initiator_id, target_id |-> prompt.target_id,
     is_interrupt |-> prompt.is_interrupt, accepted |-> accepted,
     initiator_state |-> sessions[prompt.initiator_id].state,
     target_state |-> sessions[prompt.target_id].state,
     partner_id |-> sessions[prompt.target_id].partner_id]

\* Lines 1453-1470: c presses "Yes, switch chats" (end_chat comes first) or
\* "Accept" of a prompt it was sent.
AcceptReconnect(c) ==
    /\ CanDispatch(c)
    /\ ops' = ops + 1
    /\ \E prompt \in probe.prompts :
        /\ prompt.target_id = c
        /\ probe' = [probe EXCEPT !.prompts = @ \ {prompt},
                                  !.answers = @ \cup {Answer(prompt, TRUE)}]
        /\ IF prompt.is_interrupt
           THEN Goto(Upd(c), [Idle EXCEPT !.pc = "ec_read", !.uid = c,
                                          !.after = "reconnect", !.action = "interrupt",
                                          !.initiator_id = prompt.initiator_id])
           ELSE Goto(Upd(c), [Idle EXCEPT !.pc = "ar_check", !.uid = c,
                                          !.action = "standard",
                                          !.initiator_id = prompt.initiator_id])
    /\ UNCHANGED <<users, sessions, chat_history, invites, match_lock, tasks, jobs, menus,
                   picked, sideVars>>

\* Lines 1472-1484: the initiator must be idle; then match_users(initiator,
\* accepter, is_reconnect=True).
AcceptCheck(p) ==
    /\ At(p, "ar_check")
    /\ LET h == handlers[p]
           initiator_data == get_user_data(h.initiator_id)
       IN IF initiator_data.state # "idle"
          THEN Return(p)
          ELSE Goto(p, [h EXCEPT !.pc = "mu_insert",
                                 !.m = [user1_id |-> h.initiator_id, user2_id |-> h.uid,
                                        chat_id |-> NoChat]])
    /\ UNCHANGED <<probe, sideVars, users, sessions, chat_history, invites, match_lock, tasks,
                   jobs, menus, ops, picked>>

DeclineEndsChat(c) ==
    /\ CanDispatch(c)
    /\ ops' = ops + 1
    /\ \E prompt \in probe.prompts :
        /\ prompt.target_id = c
        /\ probe' = [probe EXCEPT !.prompts = @ \ {prompt},
                                  !.answers = @ \cup {Answer(prompt, FALSE)}]
    /\ sessions' = [sessions EXCEPT ![c] = reset_data(@)]
    /\ UNCHANGED <<users, chat_history, invites, match_lock, handlers, tasks, jobs, menus,
                   picked, sideVars>>

\* Lines 1487-1501: c presses "No, stay here" or "Decline": the prompt is
\* answered and the initiator is told.
DeclineReconnect(c) ==
    /\ CanDispatch(c)
    /\ ops' = ops + 1
    /\ \E prompt \in probe.prompts :
        /\ prompt.target_id = c
        /\ probe' = [probe EXCEPT !.prompts = @ \ {prompt},
                                  !.answers = @ \cup {Answer(prompt, FALSE)}]
    /\ UNCHANGED <<users, sessions, chat_history, invites, match_lock, handlers, tasks,
                   jobs, menus, picked, sideVars>>

\* Users 1 and 2 are favorites of each other. Either everybody is idle, or
\* users 2 and 3 are in chat 1; user 1 may have asked user 2 to chat already.
ReconnectInit ==
    /\ users = Cast
    /\ connections = <<[user1_id |-> 1, user2_id |-> 2]>>
    /\ \/ /\ sessions = [c \in Clients |-> NewSession]
          /\ chat_history = <<>>
          /\ msg_seq = [c \in Clients |-> NoMsg]
          /\ \E prompts \in {{}, {[initiator_id |-> 1, target_id |-> 2, is_interrupt |-> FALSE]}} :
                probe = [kind |-> "reconnect", prompts |-> prompts, answers |-> {}]
       \/ /\ sessions = (1 :> NewSession) @@
                        (2 :> [in_chat_with(NewSession, 3, 1) EXCEPT !.pinned_message_id = 1]) @@
                        (3 :> [in_chat_with(NewSession, 2, 1) EXCEPT !.pinned_message_id = 1])
          /\ chat_history = <<[OpenChat12[1] EXCEPT !.user1_id = 2, !.user2_id = 3]>>
          /\ msg_seq = (1 :> NoMsg) @@ (2 :> 1) @@ (3 :> 1)
          /\ \E prompts \in {{}, {[initiator_id |-> 1, target_id |-> 2, is_interrupt |-> TRUE]}} :
                probe = [kind |-> "reconnect", prompts |-> prompts, answers |-> {}]
    /\ invites = <<>>
    /\ match_lock = Unlocked
    /\ handlers = [p \in Procs |-> Idle]
    /\ tasks = <<>>
    /\ jobs = [c \in Clients |-> 0]
    /\ menus = [c \in Clients |-> {}]
    /\ ops = 0
    /\ picked = [c \in Clients |-> 0]
    /\ message_map = {}
    /\ timers = {}
    /\ ended = {}
    /\ media_to_forward = [c \in Clients |-> NoMsg]

ReconnectNext ==
    \/ \E c \in Clients : ReconnectRequest(c)
    \/ \E c \in Clients : AcceptReconnect(c)
    \/ \E c \in Clients : DeclineReconnect(c)
    \/ \E c \in Clients : FindStranger(c)
    \/ \E c \in Clients : CancelSearch(c)
    \/ \E p \in Procs : AcceptCheck(p)
    \/ \E p \in Procs : InlineMatchStep(p)
    \/ \E p \in Procs : EndChatRead(p)
    \/ \E p \in Procs : EndChatStamp(p)
    \/ \E p \in Procs : EndChatClear(p)
    \/ \E p \in Procs : EndChatWrite1(p)
    \/ \E p \in Procs : EndChatWrite2(p)
    \/ \E p \in Procs : EnqRead(p)
    \/ \E p \in Procs : EnqWrite(p)
    \/ \E p \in Procs : PassLock(p)
    \/ \E p \in Procs : PassScan(p)
    \/ TaskStep

SpecReconnect == ReconnectInit /\ [][ReconnectNext]_vars

\* The handler in which c accepted a request returns.
AcceptReturns(c) ==
    /\ handlers[Upd(c)].initiator_id # NoOne
    /\ handlers'[Upd(c)] = Idle

\* C28: when a user who is in_chat accepts an interrupt request, the
\* handler ends with the user's chat ended, the interrupted partner sent to
\* the pool, and the user and the initiator in_chat with each other in the
\* chat that match_users made.
C28_InterruptReconnects ==
    [][\A c \in Clients : \A answer \in probe.answers :
          (/\ AcceptReturns(c)
           /\ answer.target_id = c /\ answer.accepted /\ answer.is_interrupt
           /\ answer.target_state = "in_chat")
          => /\ \E r \in ended : r.user_id = c /\ r.partner_id = answer.partner_id
             /\ sessions'[answer.partner_id].state \in {"waiting", "in_chat"}
             /\ sessions'[answer.partner_id].partner_id # c
             /\ sessions'[c].state = "in_chat"
             /\ sessions'[c].partner_id = answer.initiator_id
             /\ sessions'[answer.initiator_id].state = "in_chat"
             /\ sessions'[answer.initiator_id].partner_id = c
             /\ sessions'[answer.initiator_id].last_chat_id = sessions'[c].last_chat_id]_vars

\* c answers a prompt with "No, stay here" or "Decline".
Declines(c) ==
    \E answer \in probe'.answers \ probe.answers : answer.target_id = c /\ ~answer.accepted

\* C29: declining a request, standard or interrupt, changes no session, no
\* chat, no connection and no row of the relay map.
C29_DeclineChangesNothing ==
    [][\A c \in Clients :
          Declines(c) => /\ sessions' = sessions
                         /\ chat_history' = chat_history
                         /\ connections' = connections
                         /\ message_map' = message_map
                         /\ users' = users
                         /\ handlers' = handlers]_vars

\* User 2, in chat 1 with user 3, declined the interrupt request of user 1
\* and is in the chat as before.
C29_Witness ==
    /\ \E answer \in probe.answers :
          /\ ~answer.accepted /\ answer.is_interrupt
          /\ answer.target_id = 2 /\ answer.initiator_id = 1
          /\ answer.target_state = "in_chat"
    /\ sessions[2].state = "in_chat" /\ sessions[2].partner_id = 3
    /\ sessions[3].state = "in_chat" /\ sessions[3].partner_id = 2
    /\ chat_history[1].end_time = NULL

\* C30: a standard request accepted when its initiator or the user who
\* accepts it is not idle starts no chat and changes no session.
C30_StaleAcceptDropped ==
    [][\A c \in Clients : \A answer \in probe'.answers :
          (/\ handlers'[Upd(c)] # handlers[Upd(c)]
           /\ "standard" \in {handlers[Upd(c)].action, handlers'[Upd(c)].action}
           /\ answer.target_id = c /\ answer.accepted /\ ~answer.is_interrupt
           /\ answer.initiator_state # "idle" \/ answer.target_state # "idle")
          => /\ sessions' = sessions
             /\ chat_history' = chat_history]_vars

-----------------------------------------------------------------------------
(* Reconnect sessions and the profile snapshots of a Connection:           *)
(* create_connection (lines 1306-1335) and match_users with is_reconnect   *)
(* (lines 879-886, 900-920). probe.shown records the pinned notices.       *)

\* The columns of a profile that a snapshot keeps (lines 1312-1321).
profile_snapshot(user_data) ==
    [gender |-> user_data.gender, languages |-> user_data.languages,
     intent |-> user_data.intent]

\* Lines 1323-1330: the row with the snapshots of both users, in the order
\* of the arguments of create_connection.
connection_row(profiles, user1_id, user2_id) ==
    [user1_id |-> user1_id, user2_id |-> user2_id,
     user1_snapshot |-> profile_snapshot(profiles[user1_id]),
     user2_snapshot |-> profile_snapshot(profiles[user2_id])]

\* The stored snapshot of user_id in a row of connections, by the column
\* that holds the user (as my_connections_callback reads it, lines 1357-1362).
snapshot_of(conn_rec, user_id) ==
    IF conn_rec.user1_id = user_id THEN conn_rec.user1_snapshot
    ELSE conn_rec.user2_snapshot

\* Line 883: the rows SELECT * FROM connections WHERE (user1_id = $1 AND
\* user2_id = $2) OR (user1_id = $2 AND user2_id = $1) can return.
conn_recs(user1_id, user2_id) ==
    {i \in 1..Len(connections) :
        \/ connections[i].user1_id = user1_id /\ connections[i].user2_id = user2_id
        \/ connections[i].user1_id = user2_id /\ connections[i].user2_id = user1_id}

\* Lines 879-886: the live rows, replaced on a reconnect by the columns
\* user1_snapshot and user2_snapshot of the row conn_rec = connections[i].
profiles_to_show(m, is_reconnect, i) ==
    IF is_reconnect /\ i \in conn_recs(m.user1_id, m.user2_id)
    THEN [user1_profile_to_show |-> connections[i].user1_snapshot,
          user2_profile_to_show |-> connections[i].user2_snapshot]
    ELSE [user1_profile_to_show |-> profile_snapshot(get_user_data(m.user1_id)),
          user2_profile_to_show |-> profile_snapshot(get_user_data(m.user2_id))]

\* Line 900: user1 is shown user2_profile_to_show, user2 user1_profile_to_show.
partner_profile(shows, m, current_user_id) ==
    IF current_user_id = m.user1_id THEN shows.user2_profile_to_show
    ELSE shows.user1_profile_to_show

\* match_users awaited by accept_reconnect_callback (line 1484): the steps
\* of InlineMatchStep, with the notice of lines 913-922 recorded. No step of
\* this specification changes connections or users, so the row read at line
\* 883 is the row in the table when the notice is sent.
ReconnectMatchStep(p) ==
    /\ handlers[p].pc \in {"mu_insert", "mu_write1", "mu_write2", "mu_commit",
                          "mu_pin1", "mu_pin2"}
    /\ LET h == handlers[p]
           n == match_users_next(Inline(h))
           current_user_id == IF h.pc = "mu_pin1" THEN h.m.user1_id ELSE h.m.user2_id
           rows == conn_recs(h.m.user1_id, h.m.user2_id)
       IN /\ match_users_step(Inline(h))
          /\ IF h.pc \in {"mu_pin1", "mu_pin2"}
             THEN \E i \in IF rows = {} THEN {0} ELSE rows :
                    probe' = [probe EXCEPT !.shown = @ \cup
                        {[chat_id |-> h.m.chat_id, viewer |-> current_user_id,
                          initiator_id |-> h.initiator_id, conn_rec |-> i,
                          profile |-> partner_profile(
                              profiles_to_show(h.m, h.initiator_id # NoOne, i),
                              h.m, current_user_id)]}]
             ELSE UNCHANGED probe
          /\ IF n.pc = "done" THEN Return(p)
             ELSE Goto(p, [h EXCEPT !.pc = n.pc, !.m.chat_id = n.chat_id])
    /\ UNCHANGED <<message_map, connections, ended, media_to_forward, users, invites,
                   match_lock, tasks, jobs, menus, ops, picked>>

\* Two of the users became favorites while their profiles were those of
\* Cast, initiator first in the row; since then they may have changed their
\* intent. Everybody is idle.
SnapshotInit ==
    /\ \E user1_id \in Clients : \E user2_id \in Clients \ {user1_id} :
          connections = <<connection_row(Cast, user1_id, user2_id)>>
    /\ \E edits \in [Clients -> Intents] :
          users = [c \in Clients |-> [Cast[c] EXCEPT !.intent = edits[c]]]
    /\ sessions = [c \in Clients |-> NewSession]
    /\ chat_history = <<>>
    /\ msg_seq = [c \in Clients |-> NoMsg]
    /\ probe = [kind |-> "snapshot", prompts |-> {}, answers |-> {}, shown |-> {}]
    /\ invites = <<>>
    /\ match_lock = Unlocked
    /\ handlers = [p \in Procs |-> Idle]
    /\ tasks = <<>>
    /\ jobs = [c \in Clients |-> 0]
    /\ menus = [c \in Clients |-> {}]
    /\ ops = 0
    /\ picked = [c \in Clients |-> 0]
    /\ message_map = {}
    /\ timers = {}
    /\ ended = {}
    /\ media_to_forward = [c \in Clients |-> NoMsg]

SnapshotNext ==
    \/ \E c \in Clients : ReconnectRequest(c)
    \/ \E c \in Clients : AcceptReconnect(c)
    \/ \E p \in Procs : AcceptCheck(p)
    \/ \E p \in Procs : ReconnectMatchStep(p)

SpecSnapshot == SnapshotInit /\ [][SnapshotNext]_vars

\* C31: in a reconnect session with a Connection, the profile each side is
\* shown is the stored snapshot of the other participant, whichever of the
\* two is user1 of the Connection and whichever of them sent the request.
C31_SnapshotOfTheOther ==
    \A s \in probe.shown :
        (s.initiator_id # NoOne /\ s.conn_rec # 0)
        => LET history == chat_history[s.chat_id] IN
           s.profile = snapshot_of(connections[s.conn_rec], partner_of(history, s.viewer))

-----------------------------------------------------------------------------
(* Cancellation against a matching pass and the session start it spawned:  *)
(* cancel_search (lines 987-998), run_matching_algorithm (lines 970-985).  *)

\* Nobody waits, or one of the basic users entered the pool earlier and
\* found nobody. No invite and no connection exists.
CancelInit ==
    /\ probe = [kind |-> "none"]
    /\ users = Cast
    /\ \E waiting \in SUBSET {2, 3} :
          /\ Cardinality(waiting) <= 1
          /\ sessions = [c \in Clients |->
                            IF c \in waiting THEN [NewSession EXCEPT !.state = "waiting"]
                            ELSE NewSession]
    /\ chat_history = <<>>
    /\ invites = <<>>
    /\ match_lock = Unlocked
    /\ handlers = [p \in Procs |-> Idle]
    /\ tasks = <<>>
    /\ jobs = [c \in Clients |-> 0]
    /\ menus = [c \in Clients |-> {}]
    /\ ops = 0
    /\ picked = [c \in Clients |-> 0]
    /\ NoSide
    /\ msg_seq = [c \in Clients |-> NoMsg]

CancelNext ==
    \/ \E c \in Clients : FindStranger(c)
    \/ \E c \in Clients : CancelSearch(c)
    \/ \E p \in Procs : EnqRead(p)
    \/ \E p \in Procs : EnqWrite(p)
    \/ \E p \in Procs : PassLock(p)
    \/ \E p \in Procs : PassScan(p)
    \/ TaskStep

SpecCancel == CancelInit /\ [][CancelNext]_vars

\* C32: a client whose wait was cancelled is idle and is placed into no
\* session unless it enqueues again (no invite and no reconnect exists
\* here): no step takes a client from idle to in_chat, whatever the pass
\* and the session start it spawned have done before the cancellation.
C32_CancelledStaysOut ==
    [][\A c \in Clients :
          sessions[c].state = "idle" => sessions'[c].state \in {"idle", "waiting"}]_vars

-----------------------------------------------------------------------------
(* The pairs a matching pass chooses, against the store its snapshot was   *)
(* taken from: get_waiting_pool (lines 210-214) and                        *)
(* run_matching_algorithm (lines 970-985).                                 *)

\* The store before a search: user 1 idle, or hosting the invite it
\* created, or in chat 1 with user 2; of the users not in a chat at most
\* one, a basic one, entered the pool earlier and found nobody.
PoolInit ==
    /\ probe = [kind |-> "none"]
    /\ users = Cast
    /\ \/ /\ \E state1 \in {"idle", "hosting"} : \E waiting \in {{}, {2}, {3}} :
                /\ sessions = [c \in Clients |->
                       IF c \in waiting THEN [NewSession EXCEPT !.state = "waiting"]
                       ELSE IF c = 1 THEN [NewSession EXCEPT !.state = state1]
                       ELSE NewSession]
                /\ invites = IF state1 = "hosting"
                             THEN <<[host_user_id |-> 1, present |-> TRUE, age |-> 0,
                                     redeemed |-> <<>>]>>
                             ELSE <<>>
          /\ chat_history = <<>>
          /\ msg_seq = [c \in Clients |-> NoMsg]
       \/ /\ \E state3 \in {"idle", "waiting"} :
                sessions = [InChat12 EXCEPT ![3].state = state3]
          /\ invites = <<>>
          /\ chat_history = OpenChat12
          /\ msg_seq = Pinned12
    /\ match_lock = Unlocked
    /\ handlers = [p \in Procs |-> Idle]
    /\ tasks = <<>>
    /\ jobs = [c \in Clients |-> 0]
    /\ menus = [c \in Clients |-> {}]
    /\ ops = 0
    /\ picked = [c \in Clients |-> 0]
    /\ NoSide

PoolNext ==
    \/ \E c \in Clients : FindStranger(c)
    \/ \E p \in Procs : EnqRead(p)
    \/ \E p \in Procs : EnqWrite(p)
    \/ \E p \in Procs : PassLock(p)
    \/ \E p \in Procs : PassScan(p)
    \/ TaskStep

SpecPool == PoolInit /\ [][PoolNext]_vars

\* Process p ends its pass: it held the lock and releases it.
PassEnds(p) == match_lock = p /\ match_lock' = Unlocked

\* The tasks a step spawned.
NewTasks == {tasks'[i] : i \in (Len(tasks) + 1)..Len(tasks')}

\* C33: every pair a pass chooses is two distinct clients that are waiting
\* in the store the snapshot is taken from and mutually compatible on its
\* rows; idle, hosting and in_chat clients are never chosen; the pass
\* changes no session, so the entrants it leaves unmatched stay waiting.
C33_PairsFromTheSnapshot ==
    [][\A p \in Procs : PassEnds(p) =>
          /\ \A t \in NewTasks :
                /\ t.user1_id # t.user2_id
                /\ sessions[t.user1_id].state = "waiting"
                /\ sessions[t.user2_id].state = "waiting"
                /\ check_mutual_match(get_user_data(t.user1_id), get_user_data(t.user2_id))
          /\ sessions' = sessions]_vars

\* A pass has just paired users 2 and 3 out of a snapshot of three entrants:
\* user 1, whose filters nobody passes, is left waiting.
C33_Witness ==
    /\ \E i \in 1..Len(tasks) :
          /\ {tasks[i].user1_id, tasks[i].user2_id} = {2, 3}
          /\ tasks[i].pc = "mu_insert"
    /\ \A c \in Clients : sessions[c].state = "waiting"
    /\ match_lock = Unlocked
    /\ \A p \in Procs : At(p, "idle")

-----------------------------------------------------------------------------
(* Termination of a matching pass, under SpecPair: the two passes of the   *)
(* spawned exit action of user 2 and of the search of user 3 contend for   *)
(* MATCH_LOCK, on pools of 0, 1 and 2 entrants.                             *)

\* C34: every pass terminates and releases the matching lock, whatever the
\* size of its pool, and a pass that waits for the lock gets it.
C34_PassReleasesLock ==
    \A p \in Procs :
        /\ (match_lock = p) ~> (match_lock = Unlocked)
        /\ At(p, "pass_lock") ~> (match_lock = p)

\* The pass of user 3 has taken the lock while the pass of the exit action
\* of user 2 waits for it.
C34_Witness ==
    /\ match_lock = Upd(3)
    /\ At(Upd(3), "pass_scan")
    /\ At(Act(2), "pass_lock")

-----------------------------------------------------------------------------
(* The search preferences a fallback choice loosened, after the chat:      *)
(* handle_initiator_action (lines 1154-1162), message_handler (lines       *)
(* 1181-1187), accept_reconnect_callback (lines 1463-1468).                *)

\* User 1 searched for (Female, English) and took the fallback option
\* (Any, English) (line 819); the pass paired it with user 2 in chat 1.
\* Users 2 and 3 are favorites of each other; user 3 may have asked user 2
\* to chat already.
RestoreInit ==
    /\ users = Cast
    /\ sessions = [InChat12 EXCEPT
                      ![1].original_search_prefs = json_dumps_prefs("Female", "English")]
    /\ chat_history = OpenChat12
    /\ msg_seq = Pinned12
    /\ \E row \in {[user1_id |-> 2, user2_id |-> 3], [user1_id |-> 3, user2_id |-> 2]} :
          connections = <<row>>
    /\ \E prompts \in {{}, {[initiator_id |-> 3, target_id |-> 2, is_interrupt |-> TRUE]}} :
          probe = [kind |-> "reconnect", prompts |-> prompts, answers |-> {}]
    /\ invites = <<>>
    /\ match_lock = Unlocked
    /\ handlers = [p \in Procs |-> Idle]
    /\ tasks = <<>>
    /\ jobs = [c \in Clients |-> 0]
    /\ menus = [c \in Clients |-> {}]
    /\ ops = 0
    /\ picked = [c \in Clients |-> 0]
    /\ message_map = {}
    /\ timers = {}
    /\ ended = {}
    /\ media_to_forward = [c \in Clients |-> NoMsg]

RestoreNext ==
    \/ \E c \in Clients : ExitChat(c)
    \/ \E c \in Clients : ReconnectRequest(c)
    \/ \E c \in Clients : AcceptReconnect(c)
    \/ \E p \in Procs : AcceptCheck(p)
    \/ \E p \in Procs : InlineMatchStep(p)
    \/ \E p \in Procs : EndChatRead(p)
    \/ \E p \in Procs : EndChatStamp(p)
    \/ \E p \in Procs : EndChatClear(p)
    \/ \E p \in Procs : EndChatWrite1(p)
    \/ \E p \in Procs : EndChatWrite2(p)
    \/ \E p \in Procs : ExitPartnerRead(p)
    \/ \E p \in Procs : ExitPartnerRestore(p)
    \/ \E p \in Procs : ActionRead(p)
    \/ \E p \in Procs : ActionRestore(p)
    \/ \E p \in Procs : EnqRead(p)
    \/ \E p \in Procs : EnqWrite(p)
    \/ \E p \in Procs : PassLock(p)
    \/ \E p \in Procs : PassScan(p)
    \/ TaskStep

SpecRestore == RestoreInit /\ [][RestoreNext]_vars

\* C35: a participant with stored original search preferences that enters
\* the pool again after its chat ended (as the one who left, as the partner
\* of the one who left, or as the partner left behind by a priority
\* reconnect) searches with its original preferences.
C35_PrefsRestored ==
    [][\A c \in Clients :
          (/\ sessions[c].state # "waiting"
           /\ sessions'[c].state = "waiting"
           /\ sessions'[c].original_search_prefs # NullPrefs)
          => sessions'[c].search_prefs = sessions'[c].original_search_prefs]_vars

-----------------------------------------------------------------------------
(* The consent prompt of favorite_callback (lines 1258-1274) and its       *)
(* answer, consent_callback (lines 1280-1302), under SpecFav.              *)

\* The handler in which c accepted the consent prompt of initiator_id ends:
\* it is at the INSERT of create_connection(initiator_id, c) (line 1299).
ConsentAccepted(c, initiator_id) ==
    /\ At(Upd(c), "cc_insert")
    /\ handlers[Upd(c)].m.user1_id = initiator_id
    /\ handlers[Upd(c)].m.user2_id = c
    /\ \E prompt \in probe.accepted :
          prompt.accepter_id = c /\ prompt.initiator_id = initiator_id
    /\ handlers'[Upd(c)] = Idle

\* A consent prompt is answered "no": the only update that starts no
\* handler step and records nothing (lines 1300-1302).
ConsentDeclined ==
    /\ ops' = ops + 1
    /\ handlers' = handlers
    /\ probe' = probe

\* C36: when the premium participant flagged first and its partner got the
\* consent prompt, accepting the prompt leaves a Connection of (initiator,
\* accepter), and declining it changes no connection, no favorite flag and
\* no session.
C36_ConsentProtocol ==
    [][/\ \A c \in Clients : \A initiator_id \in Clients :
             ConsentAccepted(c, initiator_id)
             => /\ is_premium(initiator_id) /\ ~is_premium(c)
                /\ \E i \in 1..Len(connections') :
                      /\ connections'[i].user1_id = initiator_id
                      /\ connections'[i].user2_id = c
       /\ ConsentDeclined => /\ connections' = connections
                             /\ chat_history' = chat_history
                             /\ sessions' = sessions]_vars

\* User 1, premium, flagged chat 1; user 2 never flagged it but accepted the
\* prompt: the two are connected.
C36_Witness ==
    /\ connections = <<[user1_id |-> 1, user2_id |-> 2]>>
    /\ \E prompt \in probe.accepted : prompt.initiator_id = 1 /\ prompt.accepter_id = 2
    /\ chat_history[1].user1_wants_favorite = 1
    /\ chat_history[1].user2_wants_favorite = 0
    /\ \A p \in Procs : handlers[p] = Idle

-----------------------------------------------------------------------------
(* The matching a pass computes, under SpecPass.                           *)

\* The rows of the snapshot that the run paired with nobody.
Unmatched(pool, run) == {i \in 1..Len(pool) : ~InPairs(run.pairs, pool[i].user_id)}

\* C37: the pass computes a maximal matching of its snapshot: when it ends,
\* no two entrants it left unmatched are mutually compatible.
C37_MaximalMatching ==
    probe.kind = "pass_out" =>
        \A i \in Unmatched(probe.pool, probe.run) :
        \A j \in Unmatched(probe.pool, probe.run) :
            i # j => ~check_mutual_match(probe.pool[i], probe.pool[j])

\* A run on four entrants that started one session and left two entrants,
\* incompatible with each other, in the pool.
C37_Witness ==
    /\ probe.kind = "pass_out"
    /\ Len(probe.pool) = MaxPool
    /\ Len(probe.run.pairs) = 1
    /\ Cardinality(Unmatched(probe.pool, probe.run)) = 2

-----------------------------------------------------------------------------
(* Compatible clients left in the pool: add_to_pool_and_match (lines       *)
(* 735-750), unified_fallback_callback (lines 806-833),                    *)
(* run_matching_algorithm (lines 970-985).                                 *)

\* Two clients of the pool that a pass would pair.
Stranded(a, b) ==
    /\ a # b
    /\ sessions[a].state = "waiting"
    /\ sessions[b].state = "waiting"
    /\ check_mutual_match(get_user_data(a), get_user_data(b))

\* User 1 (premium, searching with (Any, English)) ended chat 1 with user 2
\* by "Stop" or "Next": message_handler closed the chat, put user 2 back in
\* the pool, where its pass found nobody, and spawned
\* handle_initiator_action(1, action) (lines 1178-1193).
StrandInit ==
    /\ probe = [kind |-> "none"]
    /\ users = Cast
    /\ sessions = [InChat12 EXCEPT ![1] = reset_data(@),
                                   ![2] = [reset_data(@) EXCEPT !.state = "waiting"]]
    /\ chat_history = <<[OpenChat12[1] EXCEPT !.end_time = "stamped"]>>
    /\ invites = <<>>
    /\ match_lock = Unlocked
    /\ \E action \in {"Stop", "Next"} :
          handlers = [p \in Procs |->
                         IF p = Act(1)
                         THEN [Idle EXCEPT !.pc = "ia_read", !.uid = 1, !.action = action]
                         ELSE Idle]
    /\ tasks = <<>>
    /\ jobs = [c \in Clients |-> 0]
    /\ menus = [c \in Clients |-> {}]
    /\ ops = MaxOps - 1
    /\ picked = [c \in Clients |-> 0]
    /\ message_map = {}
    /\ connections = <<>>
    /\ timers = {[name |-> "delete_job", user_id |-> 2, chat_id |-> 1]}
                \cup vibe_checks(1, 2, 1)
    /\ ended = {[user_id |-> 1, partner_id |-> 2, last_chat_id |-> 1]}
    /\ msg_seq = Pinned12
    /\ media_to_forward = [c \in Clients |-> NoMsg]

StrandNext ==
    \/ \E c \in {1} : FindStranger(c)
    \/ \E p \in Procs : ActionRead(p)
    \/ \E p \in Procs : ActionRestore(p)
    \/ \E p \in Procs : EnqRead(p)
    \/ \E p \in Procs : EnqWrite(p)
    \/ \E p \in Procs : PassLock(p)
    \/ \E p \in Procs : PassScan(p)
    \/ TaskStep

SpecStrand == StrandInit /\ [][StrandNext]_vars

\* C38: no compatible pair is left stranded: in every quiescent state the
\* pool holds no two clients for which check_mutual_match holds.
C38_NoStrandedPair ==
    Quiescent => \A a \in Clients : \A b \in Clients : ~Stranded(a, b)

-----------------------------------------------------------------------------
(* Media held back for the sender's protection choice: message_handler     *)
(* (lines 1201-1209) and media_timer_callback (lines 1103-1132).           *)
(* probe.held is the chat and the partner of the sender when the media was *)
(* sent.                                                                   *)

\* User 1, premium, sent media as message 2 of its chat in chat 1 with
\* user 2, and has not chosen yet (context.user_data holds the message id).
\* Either the two still chat, or user 2 ended chat 1 and a pass has paired
\* user 1 with user 3 in chat 2.
MediaInit ==
    /\ probe = [kind |-> "relay", relayed |-> {}, failed |-> {},
                held |-> [user_id |-> 1, chat_id |-> 1, partner_id |-> 2, message_id |-> 2]]
    /\ users = Cast
    /\ media_to_forward = [c \in Clients |-> IF c = 1 THEN 2 ELSE NoMsg]
    /\ \/ /\ sessions = InChat12
          /\ chat_history = OpenChat12
          /\ msg_seq = [Pinned12 EXCEPT ![1] = 2]
          /\ ended = {}
          /\ timers = {}
       \/ /\ sessions = (1 :> [in_chat_with(reset_data(InChat12[1]), 3, 2) EXCEPT
                                  !.pinned_message_id = 4]) @@
                        (2 :> NewSession) @@
                        (3 :> [in_chat_with(NewSession, 1, 2) EXCEPT !.pinned_message_id = 1])
          /\ chat_history = <<[OpenChat12[1] EXCEPT !.end_time = "stamped"],
                              [OpenChat12[1] EXCEPT !.user1_id = 1, !.user2_id = 3]>>
          /\ msg_seq = (1 :> 4) @@ (2 :> 1) @@ (3 :> 1)
          /\ ended = {[user_id |-> 2, partner_id |-> 1, last_chat_id |-> 1]}
          /\ timers = {[name |-> "delete_job", user_id |-> 1, chat_id |-> 1]}
                      \cup vibe_checks(2, 1, 1)
    /\ message_map = {}
    /\ connections = <<>>
    /\ invites = <<>>
    /\ match_lock = Unlocked
    /\ handlers = [p \in Procs |-> Idle]
    /\ tasks = <<>>
    /\ jobs = [c \in Clients |-> 0]
    /\ menus = [c \in Clients |-> {}]
    /\ ops = 0
    /\ picked = [c \in Clients |-> 0]

MediaNext ==
    \/ \E c \in Clients : RelayMessage(c)
    \/ \E c \in Clients : MediaTimer(c)
    \/ \E p \in Procs : RelayLookup(p)
    \/ \E p \in Procs : RelayCopy(p)
    \/ \E p \in Procs : RelayMap1(p)
    \/ \E p \in Procs : RelayMap2(p)
    \/ \E p \in Procs : EndChatRead(p)
    \/ \E p \in Procs : EndChatStamp(p)
    \/ \E p \in Procs : EndChatClear(p)
    \/ \E p \in Procs : EndChatWrite1(p)
    \/ \E p \in Procs : EndChatWrite2(p)

SpecMedia == MediaInit /\ [][MediaNext]_vars

\* C39: media held back for the sender's choice is delivered only to the
\* client who was the sender's partner when it was sent, in that chat: after
\* that chat has ended, confirming the choice in another chat delivers
\* nothing to the new partner.
C39_HeldMediaStaysInItsChat ==
    \A r \in probe.relayed :
        (r.user_id = probe.held.user_id /\ r.msg_id = probe.held.message_id)
        => (r.partner_id = probe.held.partner_id /\ r.chat_id = probe.held.chat_id)

-----------------------------------------------------------------------------
(* The favorites prompt when both users of the chat are premium:           *)
(* send_favorite_option_job (lines 953-966). User 2 may have been made     *)
(* premium (make_premium_command, line 1511).                              *)

\* FavJobInit with user 2 basic or premium.
BothInit ==
    /\ probe = [kind |-> "favorite_job", offered |-> {}]
    /\ \E premium2 \in {0, 1} : users = [Cast EXCEPT ![2].is_premium = premium2]
    /\ sessions = InChat12
    /\ chat_history = OpenChat12
    /\ msg_seq = Pinned12
    /\ invites = <<>>
    /\ match_lock = Unlocked
    /\ handlers = [p \in Procs |-> Idle]
    /\ tasks = <<>>
    /\ jobs = [c \in Clients |-> 0]
    /\ menus = [c \in Clients |-> {}]
    /\ ops = 0
    /\ picked = [c \in Clients |-> 0]
    /\ message_map = {}
    /\ connections = <<>>
    /\ timers = {[name |-> "favorite", user_id |-> 1, chat_id |-> 1]}
    /\ ended = {}
    /\ media_to_forward = [c \in Clients |-> NoMsg]

SpecFavBoth == BothInit /\ [][FavJobNext]_vars

\* C40: when the favorites job of a chat fires and its guard holds, every
\* premium participant of the chat is sent the prompt, also when both
\* participants are premium.
C40_EveryPremiumPrompted ==
    [][\A job \in timers \ timers' :
          LET history == chat_history[job.chat_id] IN
          (/\ job.name = "favorite"
           /\ still_in_chat(get_user_data(job.user_id), history.user2_id, job.chat_id))
          => \A user_id \in {history.user1_id, history.user2_id} :
                is_premium(user_id)
                => [chat_id |-> job.chat_id, user_id |-> user_id] \in probe'.offered]_vars

====
